---- MODULE Spec2Model ----
(***************************************************************************)
(* Model of media-site/assets/app.js: the GitHub listing client (ghFetch), *)
(* the two in-memory caches, the lazily expanded repository tree, the      *)
(* media resolver (showMediaForPath) and the gallery search filter.        *)
(*                                                                         *)
(* JavaScript strings are sequences of one-character strings, so that the  *)
(* string functions of the source (split, pop, toLowerCase, replace,       *)
(* includes, trim) are computed as the source computes them.               *)
(***************************************************************************)
EXTENDS Integers, Sequences, FiniteSets, TLC

(***************************************************************************)
(* String helpers.                                                         *)
(***************************************************************************)
UpperChars == <<"A","B","C","D","E","F","G","H","I","J","K","L","M",
                "N","O","P","Q","R","S","T","U","V","W","X","Y","Z">>
LowerChars == <<"a","b","c","d","e","f","g","h","i","j","k","l","m",
                "n","o","p","q","r","s","t","u","v","w","x","y","z">>

\* the other letters toLowerCase changes and what it makes of each (Unicode
\* 17), for the characters a string of the model can hold.  A lower-case
\* form that cannot be written as a character of a string here is written by
\* its code point, "U+0253" being the one character U+0253
UpperOthers == <<"À","Á","Â","Ã","Ä","Å","Æ","Ç","È","É","Ê","Ë","Ì","Í","Î","Ï","Ð","Ñ","Ò","Ó",
                 "Ô","Õ","Ö","Ø","Ù","Ú","Û","Ü","Ý","Þ","Ɓ","Ƃ","Ƅ","Ɔ","Ƈ","Ɖ","Ɗ","Ƌ","Ǝ","Ə",
                 "Ɛ","Ƒ","Ɠ","Ɣ","Ɩ","Ɨ","Ƙ","Ɯ","Ɲ","Ɵ","Ơ","Ƣ","Ƥ","Ʀ","Ƨ","Ʃ","Ƭ","Ʈ","Ư","Ʊ",
                 "Ʋ","Ƴ","Ƶ","Ʒ","Ƹ","Ƽ","Ǆ","ǅ","Ǉ","ǈ","Ǌ","ǋ","Ǎ","Ǐ","Ǒ","Ǔ","Ǖ","Ǘ","Ǚ","Ǜ",
                 "Ǟ","Ǡ","Ǣ","Ǥ","Ǧ","Ǩ","Ǫ","Ǭ","Ǯ","Ǳ","ǲ","Ǵ","Ƕ","Ƿ","Ǹ","Ǻ","Ǽ","Ǿ","Ά","Έ",
                 "Ή","Ί","Ό","Ύ","Ώ","Α","Β","Γ","Δ","Ε","Ζ","Η","Θ","Ι","Κ","Λ","Μ","Ν","Ξ","Ο",
                 "Π","Ρ","Σ","Τ","Υ","Φ","Χ","Ψ","Ω","Ϊ","Ϋ","Ϗ","Ϙ","Ϛ","Ϝ","Ϟ","Ϡ","Ϣ","Ϥ","Ϧ",
                 "Ϩ","Ϫ","Ϭ","Ϯ","ϴ","Ϸ","Ϲ","Ϻ","Ͻ","Ͼ","Ͽ","Ҁ","Ҋ","Ҍ","Ҏ","Ґ","Ғ","Ҕ","Җ","Ҙ",
                 "Қ","Ҝ","Ҟ","Ҡ","Ң","Ҥ","Ҧ","Ҩ","Ҫ","Ҭ","Ү","Ұ","Ҳ","Ҵ","Ҷ","Ҹ","Һ","Ҽ","Ҿ","Ӏ",
                 "Ӂ","Ӄ","Ӆ","Ӈ","Ӊ","Ӌ","Ӎ","Ӑ","Ӓ","Ӕ","Ӗ","Ә","Ӛ","Ӝ","Ӟ","Ӡ","Ӣ","Ӥ","Ӧ","Ө",
                 "Ӫ","Ӭ","Ӯ","Ӱ","Ӳ","Ӵ","Ӷ","Ӹ","Ӻ","Ӽ","Ӿ","Ⴀ","Ⴁ","Ⴂ","Ⴃ","Ⴄ","Ⴅ","Ⴆ","Ⴇ","Ⴈ",
                 "Ⴉ","Ⴊ","Ⴋ","Ⴌ","Ⴍ","Ⴎ","Ⴏ","Ⴐ","Ⴑ","Ⴒ","Ⴓ","Ⴔ","Ⴕ","Ⴖ","Ⴗ","Ⴘ","Ⴙ","Ⴚ","Ⴛ","Ⴜ",
                 "Ⴝ","Ⴞ","Ⴟ","Ⴠ","Ⴡ","Ⴢ","Ⴣ","Ⴤ","Ⴥ","Ⴧ","Ⴭ","Ꭰ","Ꭱ","Ꭲ","Ꭳ","Ꭴ","Ꭵ","Ꭶ","Ꭷ","Ꭸ",
                 "Ꭹ","Ꭺ","Ꭻ","Ꭼ","Ꭽ","Ꭾ","Ꭿ","Ꮀ","Ꮁ","Ꮂ","Ꮃ","Ꮄ","Ꮅ","Ꮆ","Ꮇ","Ꮈ","Ꮉ","Ꮊ","Ꮋ","Ꮌ",
                 "Ꮍ","Ꮎ","Ꮏ","Ꮐ","Ꮑ","Ꮒ","Ꮓ","Ꮔ","Ꮕ","Ꮖ","Ꮗ","Ꮘ","Ꮙ","Ꮚ","Ꮛ","Ꮜ","Ꮝ","Ꮞ","Ꮟ","Ꮠ",
                 "Ꮡ","Ꮢ","Ꮣ","Ꮤ","Ꮥ","Ꮦ","Ꮧ","Ꮨ","Ꮩ","Ꮪ","Ꮫ","Ꮬ","Ꮭ","Ꮮ","Ꮯ","Ꮰ","Ꮱ","Ꮲ","Ꮳ","Ꮴ",
                 "Ꮵ","Ꮶ","Ꮷ","Ꮸ","Ꮹ","Ꮺ","Ꮻ","Ꮼ","Ꮽ","Ꮾ","Ꮿ","Ᏸ","Ᏹ","Ᏺ","Ᏻ","Ᏼ","Ᏽ","Ᲊ","Ა","Ბ",
                 "Გ","Დ","Ე","Ვ","Ზ","Თ","Ი","Კ","Ლ","Მ","Ნ","Ო","Პ","Ჟ","Რ","Ს","Ტ","Უ","Ფ","Ქ",
                 "Ღ","Ყ","Შ","Ჩ","Ც","Ძ","Წ","Ჭ","Ხ","Ჯ","Ჰ","Ჱ","Ჲ","Ჳ","Ჴ","Ჵ","Ჶ","Ჷ","Ჸ","Ჹ",
                 "Ჺ","Ჽ","Ჾ","Ჿ","Ẁ","Ẃ","Ẅ","Ẇ","Ẉ","Ẋ","Ẍ","Ẏ","Ẑ","Ẓ","Ẕ","ẞ","Ạ","Ả","Ấ","Ầ",
                 "Ẩ","Ẫ","Ậ","Ắ","Ằ","Ẳ","Ẵ","Ặ","Ẹ","Ẻ","Ẽ","Ế","Ề","Ể","Ễ","Ệ","Ỉ","Ị","Ọ","Ỏ",
                 "Ố","Ồ","Ổ","Ỗ","Ộ","Ớ","Ờ","Ở","Ỡ","Ợ","Ụ","Ủ","Ứ","Ừ","Ử","Ữ","Ự","Ỳ","Ỵ","Ỷ",
                 "Ỹ","Ỻ","Ỽ","Ỿ","ᾈ","ᾉ","ᾊ","ᾋ","ᾌ","ᾍ","ᾎ","ᾏ","ᾘ","ᾙ","ᾚ","ᾛ","ᾜ","ᾝ","ᾞ","ᾟ",
                 "ᾨ","ᾩ","ᾪ","ᾫ","ᾬ","ᾭ","ᾮ","ᾯ","Ᾰ","Ᾱ","Ὰ","Ά","ᾼ","Ὲ","Έ","Ὴ","Ή","ῌ","Ῐ","Ῑ",
                 "Ὶ","Ί","Ῠ","Ῡ","Ὺ","Ύ","Ῥ","Ὸ","Ό","Ὼ","Ώ","ῼ","Ↄ","Ⓐ","Ⓑ","Ⓒ","Ⓓ","Ⓔ","Ⓕ","Ⓖ",
                 "Ⓗ","Ⓘ","Ⓙ","Ⓚ","Ⓛ","Ⓜ","Ⓝ","Ⓞ","Ⓟ","Ⓠ","Ⓡ","Ⓢ","Ⓣ","Ⓤ","Ⓥ","Ⓦ","Ⓧ","Ⓨ","Ⓩ","Ⲁ",
                 "Ⲃ","Ⲅ","Ⲇ","Ⲉ","Ⲋ","Ⲍ","Ⲏ","Ⲑ","Ⲓ","Ⲕ","Ⲗ","Ⲙ","Ⲛ","Ⲝ","Ⲟ","Ⲡ","Ⲣ","Ⲥ","Ⲧ","Ⲩ",
                 "Ⲫ","Ⲭ","Ⲯ","Ⲱ","Ⲳ","Ⲵ","Ⲷ","Ⲹ","Ⲻ","Ⲽ","Ⲿ","Ⳁ","Ⳃ","Ⳅ","Ⳇ","Ⳉ","Ⳋ","Ⳍ","Ⳏ","Ⳑ",
                 "Ⳓ","Ⳕ","Ⳗ","Ⳙ","Ⳛ","Ⳝ","Ⳟ","Ⳡ","Ⳣ","Ⳬ","Ⳮ","Ⳳ","Ꚁ","Ꚃ","Ꚅ","Ꚇ","Ꚉ","Ꚋ","Ꚍ","Ꚏ",
                 "Ꚑ","Ꚓ","Ꚕ","Ꚗ","Ꚙ","Ꚛ","Ꞁ","Ꞃ","Ꞅ","Ꞇ","Ꞌ","Ɥ","Ꞑ","Ꞓ","Ꞗ","Ꞙ","Ꞛ","Ꞝ","Ꞟ","Ꞡ",
                 "Ꞣ","Ꞥ","Ꞧ","Ꞩ","Ɦ","Ɜ","Ɡ","Ɬ","Ɪ","Ʞ","Ʇ","Ʝ","Ꭓ","Ꞵ","Ꞷ","Ꞹ","Ꞻ","Ꞽ","Ꞿ","Ꟁ",
                 "Ꟃ","Ꞔ","Ʂ","Ᶎ","Ꟈ","Ꟊ","Ɤ","Ꟍ","꟎","Ꟑ","꟒","꟔","Ꟗ","Ꟙ","Ꟛ","Ƛ","Ꟶ">>
LowerOthers == <<"à","á","â","ã","ä","å","æ","ç","è","é","ê","ë","ì","í",
                 "î","ï","ð","ñ","ò","ó","ô","õ","ö","ø","ù","ú","û","ü",
                 "ý","þ","U+0253","ƃ","ƅ","U+0254","ƈ","U+0256","U+0257","ƌ","ǝ","U+0259","U+025B","ƒ",
                 "U+0260","U+0263","U+0269","U+0268","ƙ","U+026F","U+0272","U+0275","ơ","ƣ","ƥ","ʀ","ƨ","ʃ",
                 "ƭ","ʈ","ư","ʊ","ʋ","ƴ","ƶ","ʒ","ƹ","ƽ","ǆ","ǆ","ǉ","ǉ",
                 "ǌ","ǌ","ǎ","ǐ","ǒ","ǔ","ǖ","ǘ","ǚ","ǜ","ǟ","ǡ","ǣ","ǥ",
                 "ǧ","ǩ","ǫ","ǭ","ǯ","ǳ","ǳ","ǵ","ƕ","ƿ","ǹ","ǻ","ǽ","ǿ",
                 "ά","έ","ή","ί","ό","ύ","ώ","α","β","γ","δ","ε","ζ","η",
                 "θ","ι","κ","λ","μ","ν","ξ","ο","π","ρ","σ","τ","υ","φ",
                 "χ","ψ","ω","ϊ","ϋ","ϗ","ϙ","ϛ","ϝ","ϟ","ϡ","ϣ","ϥ","ϧ",
                 "ϩ","ϫ","ϭ","ϯ","θ","ϸ","ϲ","ϻ","U+037B","U+037C","U+037D","ҁ","ҋ","ҍ",
                 "ҏ","ґ","ғ","ҕ","җ","ҙ","қ","ҝ","ҟ","ҡ","ң","ҥ","ҧ","ҩ",
                 "ҫ","ҭ","ү","ұ","ҳ","ҵ","ҷ","ҹ","һ","ҽ","ҿ","ӏ","ӂ","ӄ",
                 "ӆ","ӈ","ӊ","ӌ","ӎ","ӑ","ӓ","ӕ","ӗ","ә","ӛ","ӝ","ӟ","ӡ",
                 "ӣ","ӥ","ӧ","ө","ӫ","ӭ","ӯ","ӱ","ӳ","ӵ","ӷ","ӹ","ӻ","ӽ",
                 "ӿ","U+2D00","U+2D01","U+2D02","U+2D03","U+2D04","U+2D05","U+2D06","U+2D07","U+2D08","U+2D09","U+2D0A","U+2D0B","U+2D0C",
                 "U+2D0D","U+2D0E","U+2D0F","U+2D10","U+2D11","U+2D12","U+2D13","U+2D14","U+2D15","U+2D16","U+2D17","U+2D18","U+2D19","U+2D1A",
                 "U+2D1B","U+2D1C","U+2D1D","U+2D1E","U+2D1F","U+2D20","U+2D21","U+2D22","U+2D23","U+2D24","U+2D25","U+2D27","U+2D2D","U+AB70",
                 "U+AB71","U+AB72","U+AB73","U+AB74","U+AB75","U+AB76","U+AB77","U+AB78","U+AB79","U+AB7A","U+AB7B","U+AB7C","U+AB7D","U+AB7E",
                 "U+AB7F","ꮀ","ꮁ","ꮂ","ꮃ","ꮄ","ꮅ","ꮆ","ꮇ","ꮈ","ꮉ","ꮊ","ꮋ","ꮌ",
                 "ꮍ","ꮎ","ꮏ","ꮐ","ꮑ","ꮒ","ꮓ","ꮔ","ꮕ","ꮖ","ꮗ","ꮘ","ꮙ","ꮚ",
                 "ꮛ","ꮜ","ꮝ","ꮞ","ꮟ","ꮠ","ꮡ","ꮢ","ꮣ","ꮤ","ꮥ","ꮦ","ꮧ","ꮨ",
                 "ꮩ","ꮪ","ꮫ","ꮬ","ꮭ","ꮮ","ꮯ","ꮰ","ꮱ","ꮲ","ꮳ","ꮴ","ꮵ","ꮶ",
                 "ꮷ","ꮸ","ꮹ","ꮺ","ꮻ","ꮼ","ꮽ","ꮾ","ꮿ","ᏸ","ᏹ","ᏺ","ᏻ","ᏼ",
                 "ᏽ","ᲊ","ა","ბ","გ","დ","ე","ვ","ზ","თ","ი","კ","ლ","მ",
                 "ნ","ო","პ","ჟ","რ","ს","ტ","უ","ფ","ქ","ღ","ყ","შ","ჩ",
                 "ც","ძ","წ","ჭ","ხ","ჯ","ჰ","ჱ","ჲ","ჳ","ჴ","ჵ","ჶ","ჷ",
                 "ჸ","ჹ","ჺ","ჽ","ჾ","ჿ","ẁ","ẃ","ẅ","ẇ","ẉ","ẋ","ẍ","ẏ",
                 "ẑ","ẓ","ẕ","ß","ạ","ả","ấ","ầ","ẩ","ẫ","ậ","ắ","ằ","ẳ",
                 "ẵ","ặ","ẹ","ẻ","ẽ","ế","ề","ể","ễ","ệ","ỉ","ị","ọ","ỏ",
                 "ố","ồ","ổ","ỗ","ộ","ớ","ờ","ở","ỡ","ợ","ụ","ủ","ứ","ừ",
                 "ử","ữ","ự","ỳ","ỵ","ỷ","ỹ","ỻ","ỽ","ỿ","ᾀ","ᾁ","ᾂ","ᾃ",
                 "ᾄ","ᾅ","ᾆ","ᾇ","ᾐ","ᾑ","ᾒ","ᾓ","ᾔ","ᾕ","ᾖ","ᾗ","ᾠ","ᾡ",
                 "ᾢ","ᾣ","ᾤ","ᾥ","ᾦ","ᾧ","ᾰ","ᾱ","U+1F70","U+1F71","ᾳ","U+1F72","U+1F73","U+1F74",
                 "U+1F75","ῃ","ῐ","ῑ","U+1F76","U+1F77","ῠ","ῡ","U+1F7A","U+1F7B","ῥ","U+1F78","U+1F79","U+1F7C",
                 "U+1F7D","ῳ","ↄ","ⓐ","ⓑ","ⓒ","ⓓ","ⓔ","ⓕ","ⓖ","ⓗ","ⓘ","ⓙ","ⓚ",
                 "ⓛ","ⓜ","ⓝ","ⓞ","ⓟ","ⓠ","ⓡ","ⓢ","ⓣ","ⓤ","ⓥ","ⓦ","ⓧ","ⓨ",
                 "ⓩ","ⲁ","ⲃ","ⲅ","ⲇ","ⲉ","ⲋ","ⲍ","ⲏ","ⲑ","ⲓ","ⲕ","ⲗ","ⲙ",
                 "ⲛ","ⲝ","ⲟ","ⲡ","ⲣ","ⲥ","ⲧ","ⲩ","ⲫ","ⲭ","ⲯ","ⲱ","ⲳ","ⲵ",
                 "ⲷ","ⲹ","ⲻ","ⲽ","ⲿ","ⳁ","ⳃ","ⳅ","ⳇ","ⳉ","ⳋ","ⳍ","ⳏ","ⳑ",
                 "ⳓ","ⳕ","ⳗ","ⳙ","ⳛ","ⳝ","ⳟ","ⳡ","ⳣ","ⳬ","ⳮ","ⳳ","ꚁ","ꚃ",
                 "ꚅ","ꚇ","ꚉ","ꚋ","ꚍ","ꚏ","ꚑ","ꚓ","ꚕ","ꚗ","ꚙ","ꚛ","ꞁ","ꞃ",
                 "ꞅ","ꞇ","ꞌ","U+0265","ꞑ","ꞓ","ꞗ","ꞙ","ꞛ","ꞝ","ꞟ","ꞡ","ꞣ","ꞥ",
                 "ꞧ","ꞩ","U+0266","U+025C","U+0261","U+026C","U+026A","ʞ","ʇ","ʝ","U+AB53","ꞵ","ꞷ","ꞹ",
                 "ꞻ","ꞽ","ꞿ","ꟁ","ꟃ","ꞔ","ʂ","ᶎ","ꟈ","ꟊ","U+0264","ꟍ","꟏","ꟑ",
                 "ꟓ","ꟕ","ꟗ","ꟙ","ꟛ","ƛ","ꟶ">>

\* the letters toLowerCase changes, and what it makes of each
CaseFrom == UpperChars \o UpperOthers
CaseTo == LowerChars \o LowerOthers

Capitals == {CaseFrom[i] : i \in 1..Len(CaseFrom)}
Smalls == {CaseTo[i] : i \in 1..Len(CaseTo)}

\* String.prototype.toLowerCase, one character taken alone
LowerChar(c) ==
  IF c \in Capitals
  THEN CaseTo[CHOOSE i \in 1..Len(CaseFrom) : CaseFrom[i] = c]
  ELSE c

\* the characters that have a case and are neither capitals nor the
\* lower-case form of one
CasedOthers == {"ª","µ","º","ÿ","ƀ","ƍ","ƚ","ƞ","ƪ","ƫ","ƺ","ƾ","ǰ","ʁ","ʄ","ʅ","ʆ","ʉ","ʌ","ʍ",
                "ʎ","ʏ","ʐ","ʑ","ʓ","ʖ","ʗ","ʘ","ʙ","ʚ","ʛ","ʜ","ʟ","ʠ","ʡ","ʢ","ʣ","ʤ","ʥ","ʦ",
                "ʧ","ʨ","ʩ","ʪ","ʫ","ʬ","ʭ","ʮ","ʯ","ΐ","ΰ","ς","ϐ","ϑ","ϒ","ϓ","ϔ","ϕ","ϖ","ϰ",
                "ϱ","ϳ","ϵ","ϼ","ր","ց","ւ","փ","ք","օ","ֆ","և","ֈ","ᲀ","ᲁ","ᲂ","ᲃ","ᲄ","ᲅ","ᲆ",
                "ᲇ","ᲈ","ᶀ","ᶁ","ᶂ","ᶃ","ᶄ","ᶅ","ᶆ","ᶇ","ᶈ","ᶉ","ᶊ","ᶋ","ᶌ","ᶍ","ᶏ","ᶐ","ᶑ","ᶒ",
                "ᶓ","ᶔ","ᶕ","ᶖ","ᶗ","ᶘ","ᶙ","ᶚ","ẖ","ẗ","ẘ","ẙ","ẚ","ẛ","ẜ","ẝ","ẟ","ᾲ","ᾴ","ᾶ",
                "ᾷ","ι","ῂ","ῄ","ῆ","ῇ","ῒ","ΐ","ῖ","ῗ","ῢ","ΰ","ῤ","ῦ","ῧ","ῲ","ῴ","ῶ","ῷ","ⳤ",
                "ꞎ","ꞕ","ꞯ","ꟺ"}

\* the characters that have a case
Cased(c) == c \in Capitals \/ c \in Smalls \/ c \in CasedOthers

\* the characters a case context skips: marks, modifiers and some
\* punctuation
IgnorableChars == {"'",".",":","^","¨","­","¯","´","·","¸","ʰ","ʱ","ʲ","ʳ","ʴ","ʵ","ʶ","ʷ","ʸ","ʹ",
                   "ʺ","ʻ","ʼ","ʽ","ʾ","ʿ","ˀ","ˁ","˂","˃","˄","˅","ˆ","ˇ","ˈ","ˉ","ˊ","ˋ","ˌ","ˍ",
                   "ˎ","ˏ","ː","ˑ","˒","˓","˔","˕","˖","˗","˘","˙","˚","˛","˜","˝","˞","˟","ˠ","ˡ",
                   "ˢ","ˣ","ˤ","˥","˦","˧","˨","˩","˪","˫","ˬ","˭","ˮ","˯","˰","˱","˲","˳","˴","˵",
                   "˶","˷","˸","˹","˺","˻","˼","˽","˾","˿","΄","΅","·","҃","҄","҅","҆","҇","҈","҉",
                   "֑","֒","֓","֔","֕","֖","֗","֘","֙","֚","֛","֜","֝","֞","֟","֠","֡","֢","֣","֤",
                   "֥","֦","֧","֨","֩","֪","֫","֬","֭","֮","֯","ְ","ֱ","ֲ","ֳ","ִ","ֵ","ֶ","ַ","ָ",
                   "ֹ","ֺ","ֻ","ּ","ֽ","ֿ","ׁ","ׂ","ׄ","ׅ","ׇ","״","ۖ","ۗ","ۘ","ۙ","ۚ","ۛ","ۜ","۝",
                   "۟","۠","ۡ","ۢ","ۣ","ۤ","ۥ","ۦ","ۧ","ۨ","۪","۫","۬","ۭ","ަ","ާ","ި","ީ","ު","ޫ",
                   "ެ","ޭ","ޮ","ޯ","ް","߫","߬","߭","߮","߯","߰","߱","߲","߳","ߴ","ߵ","ߺ","߽","࢈","࢐",
                   "࢑","ࢗ","࢘","࢙","࢚","࢛","࢜","࢝","࢞","࢟","ࣉ","࣊","࣋","࣌","࣍","࣎","࣏","࣐","࣑","࣒",
                   "࣓","ࣔ","ࣕ","ࣖ","ࣗ","ࣘ","ࣙ","ࣚ","ࣛ","ࣜ","ࣝ","ࣞ","ࣟ","࣠","࣡","࣢","ࣣ","ࣤ","ࣥ","ࣦ",
                   "ࣧ","ࣨ","ࣩ","࣪","࣫","࣬","࣭","࣮","࣯","ࣰ","ࣱ","ࣲ","ࣳ","ࣴ","ࣵ","ࣶ","ࣷ","ࣸ","ࣹ","ࣺ",
                   "ࣻ","ࣼ","ࣽ","ࣾ","ࣿ","ঁ","়","ু","ূ","ৃ","ৄ","্","ৢ","ৣ","৾","ઁ","ં","઼","ુ","ૂ",
                   "ૃ","ૄ","ૅ","ે","ૈ","્","ૢ","ૣ","ૺ","ૻ","ૼ","૽","૾","૿","ஂ","ீ","்","ಁ","಼","ಿ",
                   "ೆ","ೌ","್","ೢ","ೣ","ඁ","්","ි","ී","ු","ූ","ັ","ິ","ີ","ຶ","ື","ຸ","ູ","຺","ົ",
                   "ຼ","ໆ","່","້","໊","໋","໌","ໍ","໎","ྀ","ཱྀ","ྂ","ྃ","྄","྆","྇","ྍ","ྎ","ྏ","ྐ",
                   "ྑ","ྒ","ྒྷ","ྔ","ྕ","ྖ","ྗ","ྙ","ྚ","ྛ","ྜ","ྜྷ","ྞ","ྟ","ྠ","ྡ","ྡྷ","ྣ","ྤ","ྥ",
                   "ྦ","ྦྷ","ྨ","ྩ","ྪ","ྫ","ྫྷ","ྭ","ྮ","ྯ","ྰ","ྱ","ྲ","ླ","ྴ","ྵ","ྶ","ྷ","ྸ","ྐྵ",
                   "ྺ","ྻ","ྼ","࿆","ႂ","ႅ","ႆ","ႍ","ႝ","ჼ","឴","឵","ិ","ី","ឹ","ឺ","ុ","ូ","ួ","ំ",
                   "៉","៊","់","៌","៍","៎","៏","័","៑","្","៓","ៗ","៝","ᢅ","ᢆ","ᢩ","ᪧ","᪰","᪱","᪲",
                   "᪳","᪴","᪵","᪶","᪷","᪸","᪹","᪺","᪻","᪼","᪽","᪾","ᪿ","ᫀ","᫁","᫂","᫃","᫄","᫅","᫆",
                   "᫇","᫈","᫉","᫊","᫋","ᫌ","ᫍ","ᫎ","᫏","᫐","᫑","᫒","᫓","᫔","᫕","᫖","᫗","᫘","᫙","᫚",
                   "᫛","᫜","᫝","᫠","᫡","᫢","᫣","᫤","᫥","᫦","᫧","᫨","᫩","᫪","᫫","ᮀ","ᮁ","ᮢ","ᮣ","ᮤ",
                   "ᮥ","ᮨ","ᮩ","᮫","ᮬ","ᮭ","᯦","ᯨ","ᯩ","ᯭ","ᯯ","ᯰ","ᯱ","᳐","᳑","᳒","᳔","᳕","᳖","᳗",
                   "᳘","᳙","᳚","᳛","᳜","᳝","᳞","᳟","᳠","᳢","᳣","᳤","᳥","᳦","᳧","᳨","᳭","᳴","᳸","᳹",
                   "ᶛ","ᶜ","ᶝ","ᶞ","ᶟ","ᶠ","ᶡ","ᶢ","ᶣ","ᶤ","ᶥ","ᶦ","ᶧ","ᶨ","ᶩ","ᶪ","ᶫ","ᶬ","ᶭ","ᶮ",
                   "ᶯ","ᶰ","ᶱ","ᶲ","ᶳ","ᶴ","ᶵ","ᶶ","ᶷ","ᶸ","ᶹ","ᶺ","ᶻ","ᶼ","ᶽ","ᶾ","ᶿ","᷀","᷁","᷂",
                   "᷃","᷄","᷅","᷆","᷇","᷈","᷉","᷊","᷋","᷌","᷍","᷎","᷏","᷐","᷑","᷒","ᷓ","ᷔ","ᷕ","ᷖ",
                   "ᷗ","ᷘ","ᷙ","ᷚ","ᷛ","ᷜ","ᷝ","ᷞ","ᷟ","ᷠ","ᷡ","ᷢ","ᷣ","ᷤ","ᷥ","ᷦ","ᷧ","ᷨ","ᷩ","ᷪ",
                   "ᷫ","ᷬ","ᷭ","ᷮ","ᷯ","ᷰ","ᷱ","ᷲ","ᷳ","ᷴ","᷵","᷶","᷷","᷸","᷹","᷺","᷻","᷼","᷽","᷾",
                   "᷿","᾽","᾿","῀","῁","῍","῎","῏","῝","῞","῟","῭","΅","`","´","῾","ₐ","ₑ","ₒ","ₓ",
                   "ₔ","ₕ","ₖ","ₗ","ₘ","ₙ","ₚ","ₛ","ₜ","⃐","⃑","⃒","⃓","⃔","⃕","⃖","⃗","⃘","⃙","⃚",
                   "⃛","⃜","⃝","⃞","⃟","⃠","⃡","⃢","⃣","⃤","⃥","⃦","⃧","⃨","⃩","⃪","⃫","⃬","⃭","⃮",
                   "⃯","⃰","⳯","⳰","⳱","ⷠ","ⷡ","ⷢ","ⷣ","ⷤ","ⷥ","ⷦ","ⷧ","ⷨ","ⷩ","ⷪ","ⷫ","ⷬ","ⷭ","ⷮ",
                   "ⷯ","ⷰ","ⷱ","ⷲ","ⷳ","ⷴ","ⷵ","ⷶ","ⷷ","ⷸ","ⷹ","ⷺ","ⷻ","ⷼ","ⷽ","ⷾ","ⷿ","゙","゚","゛",
                   "゜","ゝ","ゞ","ー","ヽ","ヾ","ꓸ","ꓹ","ꓺ","ꓻ","ꓼ","ꓽ","ꚜ","ꚝ","ꚞ","ꚟ","꛰","꛱","ꞈ","꞉",
                   "꞊","꟱","ꟲ","ꟳ","ꟴ","ꟸ","ꟹ","꣄","ꣅ","꣠","꣡","꣢","꣣","꣤","꣥","꣦","꣧","꣨","꣩","꣪",
                   "꣫","꣬","꣭","꣮","꣯","꣰","꣱","ꣿ","ꦀ","ꦁ","ꦂ","꦳","ꦶ","ꦷ","ꦸ","ꦹ","ꦼ","ꦽ","ꧏ","ꧥ",
                   "ꧦ","ꪰ","ꪲ","ꪳ","ꪴ","ꪷ","ꪸ","ꪾ","꪿","꫁","ꫝ","ꫬ","ꫭ","ꫳ","ꫴ","꫶","ꯥ","ꯨ","꯭","﮲",
                   "﮳","﮴","﮵","﮶","﮷","﮸","﮹","﮺","﮻","﮼","﮽","﮾","﮿","﯀","﯁","﯂","﻿","ﾞ","ﾟ","￣",
                   "￹","￺","￻"}

CaseIgnorable(c) == c \in IgnorableChars

\* s[i] is a final sigma: the nearest character before it that is not
\* skipped is a cased letter, and the nearest one after it is not
FinalSigma(s, i) ==
  /\ \E j \in 1..(i - 1) :
       /\ Cased(s[j]) /\ ~CaseIgnorable(s[j])
       /\ \A k \in (j + 1)..(i - 1) : CaseIgnorable(s[k])
  /\ ~\E j \in (i + 1)..Len(s) :
        /\ Cased(s[j]) /\ ~CaseIgnorable(s[j])
        /\ \A k \in (i + 1)..(j - 1) : CaseIgnorable(s[k])

\* String.prototype.toLowerCase
toLowerCase(s) ==
  [i \in 1..Len(s) |->
     IF s[i] = "Σ" /\ FinalSigma(s, i) THEN "ς" ELSE LowerChar(s[i])]

\* position of the last '.' of s, 0 when s has none
LastDot(s) ==
  IF \E i \in 1..Len(s) : s[i] = "."
  THEN CHOOSE i \in 1..Len(s) : s[i] = "." /\ \A j \in (i+1)..Len(s) : s[j] # "."
  ELSE 0

\* name.split('.').pop(): the part after the last '.', the whole name when
\* it has no '.'
SplitPop(s) == SubSeq(s, LastDot(s) + 1, Len(s))

\* name.split('.').pop().toLowerCase()
ExtOf(name) == toLowerCase(SplitPop(name))

\* s.startsWith(t, i) for a 1-based position i
MatchAt(s, t, i) ==
  /\ i + Len(t) - 1 <= Len(s)
  /\ \A j \in 1..Len(t) : s[i + j - 1] = t[j]

\* String.prototype.includes
Includes(s, t) == \E i \in 1..(Len(s) + 1) : MatchAt(s, t, i)

\* s.replace(t, ''): removes the first occurrence of the string pattern t
ReplaceFirst(s, t) ==
  IF Includes(s, t)
  THEN LET i == CHOOSE k \in 1..(Len(s) + 1) :
                  MatchAt(s, t, k) /\ \A j \in 1..(k-1) : ~MatchAt(s, t, j)
       IN  SubSeq(s, 1, i - 1) \o SubSeq(s, i + Len(t), Len(s))
  ELSE s

\* name.replace(/\.[^/.]+$/, ''): drops a final ".ext" when ext is not empty
\* and holds no '/'
StripExt(name) ==
  LET d == LastDot(name)
  IN  IF /\ d > 0
         /\ d < Len(name)
         /\ \A j \in (d+1)..Len(name) : name[j] # "/"
      THEN SubSeq(name, 1, d - 1)
      ELSE name

\* WhiteSpace and LineTerminator: tab, line feed, vertical tab, form feed,
\* carriage return, space, no-break space, ogham space mark, byte order mark
IsSpace(c) ==
  c \in {"\t", "\n", "", "\f", "\r", " ", " ", " ", "﻿"}

\* String.prototype.trim
Trim(s) ==
  IF \A i \in 1..Len(s) : IsSpace(s[i])
  THEN <<>>
  ELSE LET a == CHOOSE i \in 1..Len(s) :
                  ~IsSpace(s[i]) /\ \A j \in 1..(i-1) : IsSpace(s[j])
           b == CHOOSE i \in 1..Len(s) :
                  ~IsSpace(s[i]) /\ \A j \in (i+1)..Len(s) : IsSpace(s[j])
       IN  SubSeq(s, a, b)

(***************************************************************************)
(* File classification and URLs.                                           *)
(***************************************************************************)
ImageExts == { <<"p","n","g">>, <<"j","p","g">>, <<"j","p","e","g">>,
               <<"w","e","b","p">>, <<"g","i","f">> }
VideoExts == { <<"m","p","4">>, <<"w","e","b","m">>, <<"o","g","v">> }

isMediaFile(name) == ExtOf(name) \in (ImageExts \cup VideoExts)
isImage(name) == ExtOf(name) \in ImageExts
isVideo(name) == ExtOf(name) \in VideoExts

\* the constant prefix of rawUrl, kept as one symbol:
\* https://raw.githubusercontent.com/DavidSciMeow/DavidSciMeow/main/
RawBase == <<"https://raw.githubusercontent.com/DavidSciMeow/DavidSciMeow/main/">>
rawUrl(path) == RawBase \o path

\* JavaScript null
Null == <<"null">>

\* the members every plain object such as {} inherits from Object.prototype,
\* by name, with the length of the function the name gives; -1 for
\* __proto__, which gives an object without a length
ProtoMembers ==
    (<<"c","o","n","s","t","r","u","c","t","o","r">> :> 1)
    @@ (<<"_","_","d","e","f","i","n","e","G","e","t","t","e","r","_","_">> :> 2)
    @@ (<<"_","_","d","e","f","i","n","e","S","e","t","t","e","r","_","_">> :> 2)
    @@ (<<"h","a","s","O","w","n","P","r","o","p","e","r","t","y">> :> 1)
    @@ (<<"_","_","l","o","o","k","u","p","G","e","t","t","e","r","_","_">> :> 1)
    @@ (<<"_","_","l","o","o","k","u","p","S","e","t","t","e","r","_","_">> :> 1)
    @@ (<<"i","s","P","r","o","t","o","t","y","p","e","O","f">> :> 1)
    @@ (<<"p","r","o","p","e","r","t","y","I","s","E","n","u","m","e","r","a","b","l","e">> :> 1)
    @@ (<<"t","o","S","t","r","i","n","g">> :> 0)
    @@ (<<"v","a","l","u","e","O","f">> :> 0)
    @@ (<<"t","o","L","o","c","a","l","e","S","t","r","i","n","g">> :> 0)
    @@ (<<"_","_","p","r","o","t","o","_","_">> :> -1)

ProtoKeys == DOMAIN ProtoMembers

\* obj[key] for a key obj does not hold itself: the inherited member
Inherited(key) == << [inherited |-> key] >>

\* the body of the response to a request for the path of a file: one object
ObjectBody(path) == << [object |-> path] >>

\* v is an inherited member
IsInherited(v) == v # <<>> /\ "inherited" \in DOMAIN v[1]

\* v is a value that is no array: it has no filter or forEach and cannot be
\* iterated
NotArray(v) == v # <<>> /\ (DOMAIN v[1]) \cap {"inherited", "object"} # {}

(***************************************************************************)
(* The remote repository: what the GitHub Contents API answers with a 200. *)
(* An entry is {name, path, type}; a listing is an ordered array of them.  *)
(***************************************************************************)
Entry(n, p, t) == [name |-> n, path |-> p, type |-> t]

RootPath == <<>>
DPath == <<"d">>
EPath == <<"d","/","e">>
VPath == <<"v",".","m","p","4">>

\* root, first shape: direct media in an order that differs from the poster
\* preference, one subdirectory, one file that is not media
RootListingA ==
  << Entry(<<"c",".","p","n","g">>, <<"c",".","p","n","g">>, "file"),
     Entry(<<"c",".","m","p","4">>, <<"c",".","m","p","4">>, "file"),
     Entry(<<"c",".","j","p","g">>, <<"c",".","j","p","g">>, "file"),
     Entry(<<"d">>, DPath, "dir"),
     Entry(<<"r","e","a","d","m","e">>, <<"r","e","a","d","m","e">>, "file") >>

\* root, second shape: no media with an extension, a file named like an
\* extension, and two directories that are not in the order of their names,
\* the first with the name of a file it holds
RootListingB ==
  << Entry(<<"p","n","g">>, <<"p","n","g">>, "file"),
     Entry(VPath, VPath, "dir"),
     Entry(<<"d">>, DPath, "dir") >>

DListing ==
  << Entry(<<"v",".","M","P","4">>, DPath \o <<"/","v",".","M","P","4">>, "file"),
     Entry(<<"e">>, EPath, "dir"),
     Entry(<<"v",".","j","p","g">>, DPath \o <<"/","v",".","j","p","g">>, "file"),
     Entry(<<"b",".","g","i","f">>, DPath \o <<"/","b",".","g","i","f">>, "file") >>

EListing ==
  << Entry(<<"z",".","w","e","b","m">>, EPath \o <<"/","z",".","w","e","b","m">>, "file") >>

VListing ==
  << Entry(<<"v",".","j","p","g">>, VPath \o <<"/","v",".","j","p","g">>, "file"),
     Entry(<<"v",".","m","p","4">>, VPath \o <<"/","v",".","m","p","4">>, "file") >>

\* the contents the repository may have during a session
Repos ==
  { (RootPath :> r) @@ (DPath :> DListing) @@ (EPath :> EListing) @@ (VPath :> VListing)
      : r \in {RootListingA, RootListingB} }

\* every path a listing request can be made for
AllPaths == {RootPath, DPath, EPath, VPath}

\* assets/media.json, the demo list
Manifest ==
  << [name |-> <<"d","e","m","o",".","p","n","g">>,
      path |-> <<"d","e","m","o",".","p","n","g">>,
      type |-> "image",
      src |-> <<"a","s","s","e","t","s","/","d","e","m","o",".","p","n","g">>,
      poster |-> Null] >>

(***************************************************************************)
(* Media resolution: the synchronous parts of showMediaForPath.            *)
(***************************************************************************)
PosterExts == << <<"j","p","g">>, <<"j","p","e","g">>, <<"w","e","b","p">>, <<"p","n","g">> >>

\* ['jpg','jpeg','webp','png'].map(ext => ...)
posterCandidates(it) ==
  [i \in 1..Len(PosterExts) |->
     ReplaceFirst(it.path, it.name) \o StripExt(it.name) \o <<".">> \o PosterExts[i]]

\* for (const p of posterCandidates) if (items.find(x => x.path === p)) ...
PosterOf(it, items) ==
  LET cands == posterCandidates(it)
      found == {i \in 1..Len(cands) : \E x \in 1..Len(items) : items[x].path = cands[i]}
  IN  IF found = {}
      THEN Null
      ELSE rawUrl(cands[CHOOSE i \in found : \A j \in found : i <= j])

IsMediaEntry(it) == it.type = "file" /\ isMediaFile(it.name)

MimeType(name) == IF isVideo(name) THEN "video" ELSE "image"

\* the item pushed for a direct file of the listing
DirectItem(it, items) ==
  [name |-> it.name, path |-> it.path, type |-> MimeType(it.name),
   src |-> rawUrl(it.path), poster |-> PosterOf(it, items)]

\* the item pushed for a file of a subdirectory
SubItem(s) ==
  [name |-> s.name, path |-> s.path, type |-> MimeType(s.name),
   src |-> rawUrl(s.path), poster |-> Null]

\* first loop of showMediaForPath
DirectMedia(items) ==
  LET files == SelectSeq(items, IsMediaEntry)
  IN  [i \in 1..Len(files) |-> DirectItem(files[i], items)]

\* inner loop over one subdirectory's listing
SubMedia(sub) ==
  LET files == SelectSeq(sub, IsMediaEntry)
  IN  [i \in 1..Len(files) |-> SubItem(files[i])]

\* the next directory entry of items at position from or later, 0 when none
NextDir(items, from) ==
  IF \E k \in from..Len(items) : items[k].type = "dir"
  THEN CHOOSE k \in from..Len(items) :
         items[k].type = "dir" /\ \A j \in from..(k-1) : items[j].type # "dir"
  ELSE 0

(***************************************************************************)
(* State.                                                                  *)
(***************************************************************************)
VARIABLES
  repo,             \* the repository's contents, served by the remote API
  cache,            \* let cache = {}: path -> fetched listing
  mediaCache,       \* let mediaCache = {}: path -> media list
  allVisibleMedia,  \* let allVisibleMedia = []
  galleryEl,        \* what #gallery holds: the loading text, the empty text
                    \* or one card per item of allVisibleMedia
  currentPathEl,    \* text of #currentPath
  calls,            \* the invocations of the async functions, in start order
  nThrottled,       \* throttled responses given so far
  nSearches,        \* search inputs handled so far
  lastRender,       \* the resolution whose renderGallery ran last, 0 if none
  lastQuery,        \* <<text>> when search input text came after that
  firstListing,     \* per path, the listing the first completed
                    \* loadAndRenderDir of that path obtained
  nodes             \* the nodes made for #tree, in creation order

vars == <<repo, cache, mediaCache, allVisibleMedia, galleryEl, currentPathEl,
          calls, nThrottled, nSearches, lastRender, lastQuery, firstListing,
          nodes>>

(***************************************************************************)
(* ghFetch.                                                                *)
(***************************************************************************)
MaxAttempts == 5
BackoffUnit == 500
Statuses == {200, 403, 429, 404, 500}

\* the bound of the loop off by one: while (attempt <= 5)
LoopContinues_OffByOne(attempt) == attempt <= MaxAttempts

\* while (attempt < 5)
LoopContinues(attempt) == attempt < MaxAttempts

\* res.status === 403 || res.status === 429
IsThrottle(st) == st = 403 \/ st = 429

\* the first wait being the unit itself: Math.pow(2, attempt - 1) * 500
Backoff_FromUnit(attempt) == (2 ^ (attempt - 1)) * BackoffUnit

\* const wait = Math.pow(2, attempt) * 500
Backoff(attempt) == (2 ^ attempt) * BackoffUnit

NoRet == [path |-> <<>>, sent |-> 0, thr |-> 0, status |-> 0, result |-> <<>>]

\* the frame of one invocation of init, loadAndRenderDir or showMediaForPath,
\* with the frame of the ghFetch call it is awaiting.  pc is where it stands:
\* "fetch" awaiting the response to a request, "body" awaiting the body of
\* the response, "wait" awaiting the backoff timer, "manifest" awaiting
\* media.json, "done" returned, "failed" thrown.  The other fields record
\* what the invocation did: sent, the requests of the current ghFetch call;
\* thr, the throttled responses it got; lastSt, the status of the last
\* response to it; reqs, the requests of the invocation; mreqs, those for
\* media.json; hit, whether it was served from its cache; ret, what the last
\* ghFetch call returned; log, the path and final status of every ghFetch
\* call that returned; stale, whether it asked for a listing of a path that
\* was in the listing cache; mres, how the load of media.json ended; node, the
\* tree node whose container loadAndRenderDir renders into or whose click
\* handler called showMediaForPath, 0 when there is none.
NewCall(fn, p) ==
  [fn |-> fn, path |-> p, pc |-> "start", stage |-> "main",
   gpath |-> <<>>, attempt |-> 0, sent |-> 0, thr |-> 0, wait |-> 0,
   items |-> <<>>, media |-> <<>>, k |-> 0,
   reqs |-> 0, mreqs |-> 0, hit |-> FALSE, ret |-> NoRet, err |-> "none",
   lastSt |-> 0, log |-> <<>>, stale |-> FALSE, mres |-> "none", node |-> 0]

\* the error caught and the function carried to its end with what it has
Throw_Swallowed(rec, e) ==
  [rec EXCEPT !.pc = "done", !.err = e, !.wait = 0, !.items = <<>>, !.k = 0]

\* throw: the invocation ends, its frame is gone
Throw(rec, e) ==
  [rec EXCEPT !.pc = "failed", !.err = e, !.wait = 0, !.items = <<>>,
              !.media = <<>>, !.k = 0]

\* one turn of the while loop: attempt++ and fetch(url), or the throw after it
Attempt(rec) ==
  IF LoopContinues(rec.attempt)
  THEN [rec EXCEPT !.attempt = @ + 1, !.sent = @ + 1, !.reqs = @ + 1,
                   !.pc = "fetch", !.wait = 0,
                   !.stale = @ \/ rec.gpath \in DOMAIN cache]
  ELSE Throw(rec, "Unavailable")

\* ghFetch(p) up to its first await
GhFetchCall(rec, p) ==
  Attempt([rec EXCEPT !.gpath = p, !.attempt = 0, !.sent = 0, !.thr = 0,
                      !.lastSt = 0])

(***************************************************************************)
(* showMediaForPath and loadAndRenderDir after each await.                 *)
(***************************************************************************)
\* the function returns
Done(rec) == [rec EXCEPT !.pc = "done", !.k = 0]

\* the test media.length === 0 left out: media.json is loaded after every
\* resolution
ShowProceed_ManifestAlways(rec) ==
  IF rec.k # 0
  THEN GhFetchCall([rec EXCEPT !.stage = "sub"], rec.items[rec.k].path)
  ELSE [rec EXCEPT !.pc = "manifest", !.reqs = @ + 1, !.mreqs = @ + 1,
                   !.items = <<>>]

\* the subdirectory loop and what follows it
ShowProceed(rec) ==
  IF rec.k # 0
  THEN GhFetchCall([rec EXCEPT !.stage = "sub"], rec.items[rec.k].path)
  ELSE IF Len(rec.media) = 0
       THEN [rec EXCEPT !.pc = "manifest", !.reqs = @ + 1, !.mreqs = @ + 1,
                        !.items = <<>>]
       ELSE Done([rec EXCEPT !.items = <<>>])

\* const items = await ghFetch(path || ''), then the loop over direct files;
\* for (const it of items) throws when items cannot be iterated
ShowAfterMain(rec, items) ==
  IF NotArray(items)
  THEN Throw(rec, "TypeError")
  ELSE ShowProceed([rec EXCEPT !.items = items, !.media = DirectMedia(items),
                               !.k = NextDir(items, 1)])

\* the subdirectory's own directories followed as well: a descent of two levels
ShowAfterSub_Deeper(rec, sub) ==
  ShowProceed([rec EXCEPT !.media = @ \o SubMedia(sub),
                          !.items = SubSeq(@, 1, rec.k) \o sub \o SubSeq(@, rec.k + 1, Len(@)),
                          !.k = NextDir(SubSeq(rec.items, 1, rec.k) \o sub
                                          \o SubSeq(rec.items, rec.k + 1, Len(rec.items)),
                                        rec.k + 1)])

\* const sub = await ghFetch(it.path), then the loop over its files
ShowAfterSub(rec, sub) ==
  IF NotArray(sub)
  THEN Throw(rec, "TypeError")
  ELSE ShowProceed([rec EXCEPT !.media = @ \o SubMedia(sub),
                               !.k = NextDir(rec.items, rec.k + 1)])

\* const items = await ghFetch(path || ''), then the store and the render;
\* items.filter throws, after the store and the emptying of the container,
\* when items is no array
LoadAfterFetch(rec, items) ==
  IF NotArray(items)
  THEN [Throw(rec, "TypeError") EXCEPT !.items = items]
  ELSE Done([rec EXCEPT !.items = items])

\* const rootItems = await ghFetch(''), then the render of the top-level nodes
InitAfterFetch(rec, rootItems) ==
  IF NotArray(rootItems)
  THEN [Throw(rec, "TypeError") EXCEPT !.items = rootItems]
  ELSE Done([rec EXCEPT !.items = rootItems])

\* the caller of ghFetch resumes with the listing ghFetch returned
Continue(rec, listing) ==
  CASE rec.fn = "showMediaForPath" /\ rec.stage = "main" -> ShowAfterMain(rec, listing)
    [] rec.fn = "showMediaForPath" /\ rec.stage = "sub" -> ShowAfterSub(rec, listing)
    [] rec.fn = "loadAndRenderDir" -> LoadAfterFetch(rec, listing)
    [] rec.fn = "init" -> InitAfterFetch(rec, listing)

\* ghFetch returns listing after a response of status st
Return(rec, listing, st) ==
  Continue([rec EXCEPT !.ret = [path |-> rec.gpath, sent |-> rec.sent,
                                thr |-> rec.thr, status |-> st,
                                result |-> listing],
                        !.log = Append(@, <<rec.gpath, st>>)],
           listing)

\* the body of the while loop after await fetch(url): on a 200 the call
\* returns the promise of res.json() and on a status that is neither a
\* throttle nor a 404 it awaits res.text(), so in both the body is awaited
OnResponse(rec, st) ==
  IF st = 200 THEN [rec EXCEPT !.pc = "body"]
  ELSE IF IsThrottle(st)
       THEN [rec EXCEPT !.pc = "wait", !.thr = @ + 1, !.wait = Backoff(rec.attempt)]
       ELSE IF st = 404 THEN Return(rec, <<>>, st)
            ELSE [rec EXCEPT !.pc = "body"]

\* the body awaited has been read: res.json() gives what ghFetch returns,
\* and after res.text() ghFetch returns []
OnBody(rec, body) ==
  IF rec.lastSt = 200 THEN Return(rec, body, rec.lastSt)
  ELSE Return(rec, <<>>, rec.lastSt)

(***************************************************************************)
(* The gallery and the caches.                                             *)
(***************************************************************************)
\* what renderGallery(list) leaves in #gallery, list being an array
GalleryOf(list) == IF Len(list) = 0 THEN "placeholder" ELSE "cards"

\* renderGallery(list): what it leaves in #gallery and whether it throws.
\* #gallery is emptied first; a list that is no array and whose length is
\* not 0 makes list.forEach throw
renderGallery(list) ==
  IF IsInherited(list)
  THEN IF ProtoMembers[list[1].inherited] = 0
       THEN [gallery |-> "placeholder", threw |-> FALSE]
       ELSE [gallery |-> "initial", threw |-> TRUE]
  ELSE [gallery |-> GalleryOf(list), threw |-> FALSE]

\* the cards #gallery shows
Cards == IF galleryEl = "cards" THEN allVisibleMedia ELSE <<>>

\* an empty stored list taken for a miss: if (mediaCache[key].length)
MediaCacheHit_NonEmpty(key) == key \in DOMAIN mediaCache /\ Len(mediaCache[key]) > 0

\* if (mediaCache[key]): a stored list, or a member mediaCache inherits
MediaCacheHit(key) == key \in DOMAIN mediaCache \/ key \in ProtoKeys

\* if (cache[key]): a stored listing, or a member cache inherits
CacheHit(key) == key \in DOMAIN cache \/ key \in ProtoKeys

\* obj[key], key being found
Get(obj, key) == IF key \in DOMAIN obj THEN obj[key] ELSE Inherited(key)

\* obj[key] = value
Put(obj, key, value) ==
  [k \in (DOMAIN obj) \cup {key} |-> IF k = key THEN value ELSE obj[k]]

CallsWith(c, new) ==
  IF c \in DOMAIN calls THEN [calls EXCEPT ![c] = new] ELSE Append(calls, new)

\* the effects of one synchronous run of call c, from frame old to frame new;
\* g0 is #gallery as the run left it before any renderGallery
Commit(c, old, new, g0) ==
  LET finished == new.pc = "done" /\ old.pc # "done"
      threw == new.pc = "failed" /\ old.pc # "failed"
      shows == finished /\ new.fn = "showMediaForPath"
      loads == finished /\ new.fn = "loadAndRenderDir"
      \* renderGallery ran, to its end or to its throw
      renders == shows \/ (threw /\ new.fn = "showMediaForPath" /\ NotArray(new.media))
      \* cache[key] = items ran
      stores == loads \/ (threw /\ new.fn = "loadAndRenderDir" /\ NotArray(new.items))
  IN  /\ calls' = CallsWith(c, new)
      /\ mediaCache' = IF shows /\ ~new.hit
                       THEN Put(mediaCache, new.path, new.media)
                       ELSE mediaCache
      /\ allVisibleMedia' = IF renders THEN new.media ELSE allVisibleMedia
      /\ galleryEl' = IF renders THEN renderGallery(new.media).gallery ELSE g0
      /\ lastRender' = IF renders THEN c ELSE lastRender
      /\ lastQuery' = IF renders \/ g0 = "loading" THEN <<>> ELSE lastQuery
      /\ cache' = IF stores /\ ~new.hit
                  THEN Put(cache, new.path, new.items)
                  ELSE cache
      /\ firstListing' = IF loads /\ new.path \notin DOMAIN firstListing
                         THEN Put(firstListing, new.path, new.items)
                         ELSE firstListing

\* if (mediaCache[key]) { renderGallery(mediaCache[key]); return; }
ShowHit(rec) ==
  LET list == Get(mediaCache, rec.path)
  IN  IF renderGallery(list).threw
      THEN [Throw(rec, "TypeError") EXCEPT !.hit = TRUE, !.media = list]
      ELSE Done([rec EXCEPT !.hit = TRUE, !.media = list])

\* showMediaForPath(path) up to its first await or to its end
ShowCall(rec) ==
  IF MediaCacheHit(rec.path) THEN ShowHit(rec) ELSE GhFetchCall(rec, rec.path)

\* if (cache[key]) { renderDirListing(cache[key], container); return; }
LoadHit(rec) ==
  LET items == Get(cache, rec.path)
  IN  IF NotArray(items)
      THEN [Throw(rec, "TypeError") EXCEPT !.hit = TRUE, !.items = items]
      ELSE Done([rec EXCEPT !.hit = TRUE, !.items = items])

\* loadAndRenderDir(path, container) up to its first await or to its end
LoadCall(rec) ==
  IF CacheHit(rec.path) THEN LoadHit(rec) ELSE GhFetchCall(rec, rec.path)

(***************************************************************************)
(* The repository tree: renderDirListing, makeFolderNode, makeFileNode.    *)
(* A node of the tree is a record; its children container holds kids, the  *)
(* ids of its child nodes in document order; parent is the node into whose *)
(* container it was appended; attached tells whether it is in the          *)
(* document.  Node 1 is #tree itself.                                      *)
(***************************************************************************)
\* the order of the ASCII characters under the collation of localeCompare
\* (the root collation): white space, punctuation, symbols, digits, letters
Collation == <<" ", "_", "-", ",", ";", ":", "!", "?", ".", "'", "\"", "(",
               ")", "[", "]", "{", "}", "@", "*", "/", "\\", "&", "#", "%",
               "^", "+", "<", "=", ">", "|", "~", "$", "0", "1", "2", "3",
               "4", "5", "6", "7", "8", "9">>
               \o LowerChars

\* primary weight of a character: its place in the collation, case ignored
PrimaryKey(ch) ==
  CHOOSE i \in 1..Len(Collation) : Collation[i] = LowerChar(ch)

\* tertiary weight: lower case before upper case
CaseKey(ch) == IF \E i \in 1..Len(UpperChars) : UpperChars[i] = ch THEN 1 ELSE 0

\* x before y, both sequences of weights
LexLess(x, y) ==
  \E i \in 1..(Len(x) + 1) :
    /\ \A j \in 1..(i - 1) : j <= Len(y) /\ x[j] = y[j]
    /\ \/ i = Len(x) + 1 /\ Len(y) > Len(x)
       \/ i <= Len(x) /\ i <= Len(y) /\ x[i] < y[i]

\* a.localeCompare(b): the primary weights decide, then the case
localeCompare(a, b) ==
  LET pa == [i \in 1..Len(a) |-> PrimaryKey(a[i])]
      pb == [i \in 1..Len(b) |-> PrimaryKey(b[i])]
      ca == [i \in 1..Len(a) |-> CaseKey(a[i])]
      cb == [i \in 1..Len(b) |-> CaseKey(b[i])]
  IN  IF LexLess(pa, pb) THEN -1
      ELSE IF LexLess(pb, pa) THEN 1
      ELSE IF LexLess(ca, cb) THEN -1
      ELSE IF LexLess(cb, ca) THEN 1
      ELSE 0

\* x put into the sorted array after every entry that does not follow it
SortInsert(sorted, x) ==
  LET before == {i \in 1..Len(sorted) : localeCompare(sorted[i].name, x.name) <= 0}
      k == IF before = {} THEN 0 ELSE CHOOSE i \in before : \A j \in before : j <= i
  IN  SubSeq(sorted, 1, k) \o <<x>> \o SubSeq(sorted, k + 1, Len(sorted))

RECURSIVE SortByName(_)
\* the files sorted in the order of the listing instead of by name
SortByName_Unsorted(entries) == entries

\* .sort((a,b) => a.name.localeCompare(b.name)), a stable sort
SortByName(entries) ==
  IF entries = <<>>
  THEN <<>>
  ELSE SortInsert(SortByName(SubSeq(entries, 1, Len(entries) - 1)),
                  entries[Len(entries)])

IsDir(i) == i.type = "dir"
IsFile(i) == i.type = "file"

\* #tree
TreeEl ==
  [kind |-> "tree", name |-> <<>>, path |-> <<>>, parent |-> 0,
   expanded |-> TRUE, display |-> "block", kids |-> <<>>, dim |-> FALSE,
   attached |-> TRUE, clicks |-> 0]

\* makeFolderNode(name, path): the node as document.createElement and the
\* function leave it, outside the document, for the container of node
\* parent; clicks counts the runs of its click listener.  Its two listeners
\* are the actions ClickFolder and KeyEnterFolder
makeFolderNode(name, path, parent) ==
  [kind |-> "folder", name |-> name, path |-> path, parent |-> parent,
   expanded |-> FALSE, display |-> "none", kids |-> <<>>, dim |-> FALSE,
   attached |-> FALSE, clicks |-> 0]

\* makeFileNode(item): the node as made, outside the document, for the
\* container of node parent.  Its two listeners are the actions ClickFile
\* and KeyEnterFile
makeFileNode(item, parent) ==
  [kind |-> "file", name |-> item.name, path |-> item.path, parent |-> parent,
   expanded |-> FALSE, display |-> "block", kids |-> <<>>, dim |-> FALSE,
   attached |-> FALSE, clicks |-> 0]

\* the header of the root's files, as made
HeaderNode(parent) ==
  [kind |-> "header", name |-> <<>>, path |-> <<>>, parent |-> parent,
   expanded |-> FALSE, display |-> "block", kids |-> <<>>, dim |-> FALSE,
   attached |-> FALSE, clicks |-> 0]

RECURSIVE IsUnder(_, _, _)
\* node x of ns is inside the container of node n
IsUnder(ns, x, n) ==
  IF ns[x].parent = 0
  THEN FALSE
  ELSE IF ns[x].parent = n THEN TRUE ELSE IsUnder(ns, ns[x].parent, n)

\* container.innerHTML = '': the nodes inside the container of n leave the
\* document
ClearContainer(ns, n) ==
  [x \in 1..Len(ns) |->
     IF x = n THEN [ns[x] EXCEPT !.kids = <<>>]
     ELSE IF IsUnder(ns, x, n) THEN [ns[x] EXCEPT !.attached = FALSE]
     ELSE ns[x]]

\* container.appendChild(node) for each node made, in order, the container
\* being that of n: a node appended is in the document exactly when the
\* container is
AppendNodes(ns, n, made) ==
  [x \in 1..Len(ns) |->
     IF x = n
     THEN [ns[x] EXCEPT !.kids = @ \o [i \in 1..Len(made) |-> Len(ns) + i]]
     ELSE ns[x]]
    \o [i \in 1..Len(made) |-> [made[i] EXCEPT !.attached = ns[n].attached]]

\* renderDirListing(items, container), container being that of node n
renderDirListing(ns, n, items) ==
  LET dirs == SortByName(SelectSeq(items, IsDir))
      files == SortByName(SelectSeq(items, IsFile))
      folderNodes == [i \in 1..Len(dirs) |-> makeFolderNode(dirs[i].name, dirs[i].path, n)]
      fileNodes == [i \in 1..Len(files) |->
                      [makeFileNode(files[i], n) EXCEPT !.dim = ~isMediaFile(files[i].name)]]
  IN  AppendNodes(ClearContainer(ns, n), n, folderNodes \o fileNodes)

\* init() after await ghFetch(''): the top-level nodes
RenderRoot(ns, rootItems) ==
  LET dirs == SortByName(SelectSeq(rootItems, IsDir))
      files == SortByName(SelectSeq(rootItems, IsFile))
      folderNodes == [i \in 1..Len(dirs) |-> makeFolderNode(dirs[i].name, dirs[i].path, 1)]
      fileNodes == [i \in 1..Len(files) |-> makeFileNode(files[i], 1)]
  IN  AppendNodes(ClearContainer(ns, 1), 1,
                  folderNodes \o (IF Len(files) > 0
                                  THEN <<HeaderNode(1)>> \o fileNodes
                                  ELSE <<>>))

\* the tree after one synchronous run of an invocation, from frame old to
\* frame new
TreeAfter(ns, old, new) ==
  IF new.pc = "done" /\ old.pc # "done"
  THEN IF new.fn = "loadAndRenderDir"
       THEN renderDirListing(ns, new.node, new.items)
       ELSE IF new.fn = "init"
            THEN RenderRoot(ns, new.items)
            ELSE ns
  ELSE IF new.pc = "failed" /\ old.pc # "failed" /\ NotArray(new.items)
       THEN \* the container was emptied before items.filter threw
            IF new.fn = "loadAndRenderDir" THEN ClearContainer(ns, new.node)
            ELSE IF new.fn = "init" THEN ClearContainer(ns, 1)
            ELSE ns
       ELSE ns

RECURSIVE Visible(_, _)
\* node x can be clicked and can hold the focus: it is in the document and no
\* container around it is hidden
Visible(ns, x) ==
  IF ~ns[x].attached
  THEN FALSE
  ELSE IF ns[x].parent = 0
       THEN TRUE
       ELSE ns[ns[x].parent].display = "block" /\ Visible(ns, ns[x].parent)

(***************************************************************************)
(* Actions.                                                                *)
(***************************************************************************)
\* two names a file or a directory of the root may have
ToStringPath == <<"t","o","S","t","r","i","n","g">>
ConstructorPath == <<"c","o","n","s","t","r","u","c","t","o","r">>

\* the paths showMediaForPath and loadAndRenderDir are called with
ShowPaths == AllPaths \cup {ToStringPath, ConstructorPath}
LoadPaths == AllPaths

\* the texts typed into #globalSearch
Queries == { <<>>, <<" ">>, <<"C">>, <<" ","j","p"," ">> }

\* the page as app.js has run to its end: init() is awaiting the root listing
Loaded ==
  /\ cache = <<>>
  /\ mediaCache = <<>>
  /\ allVisibleMedia = <<>>
  /\ galleryEl = "initial"
  /\ currentPathEl = <<>>
  /\ calls = << GhFetchCall(NewCall("init", RootPath), RootPath) >>
  /\ nThrottled = 0
  /\ nSearches = 0
  /\ lastRender = 0
  /\ lastQuery = <<>>
  /\ firstListing = <<>>
  /\ nodes = <<TreeEl>>

Init == repo \in Repos /\ Loaded

\* the invocations made since the page loaded
Started == Len(calls) - 1

\* showMediaForPath(path) up to its first await, or to its end on a hit
ShowMediaForPath(p) ==
  /\ LET c == Len(calls) + 1
         rec == NewCall("showMediaForPath", p)
     IN  Commit(c, rec, ShowCall(rec), "loading")
  /\ currentPathEl' = <<"/">> \o p
  /\ UNCHANGED <<repo, nThrottled, nSearches, nodes>>

\* loadAndRenderDir(path, container) up to its first await, or to its end on
\* a hit; the container is that of node n
LoadAndRenderDir(p, n) ==
  /\ nodes[n].kind \in {"tree", "folder"}
  /\ LET c == Len(calls) + 1
         rec == [NewCall("loadAndRenderDir", p) EXCEPT !.node = n]
         new == LoadCall(rec)
     IN  /\ Commit(c, rec, new, galleryEl)
         /\ nodes' = TreeAfter(nodes, rec, new)
  /\ UNCHANGED <<repo, currentPathEl, nThrottled, nSearches>>

\* p is the path of a file of the repository
IsFilePath(p) ==
  \E d \in DOMAIN repo : \E i \in 1..Len(repo[d]) :
    repo[d][i].type = "file" /\ repo[d][i].path = p

\* what the remote holds at path p: the listing of a directory, one object
\* for a file
BodyOf(p) == IF p \in DOMAIN repo THEN repo[p] ELSE ObjectBody(p)

\* await fetch(url) gives the response to the pending request of call c,
\* with status st
Respond(c, st) ==
  /\ calls[c].pc = "fetch"
  /\ st = 200 => calls[c].gpath \in DOMAIN repo \/ IsFilePath(calls[c].gpath)
  /\ LET rec == calls[c]
         new == OnResponse([rec EXCEPT !.lastSt = st], st)
     IN  /\ Commit(c, rec, new, galleryEl)
         /\ nodes' = TreeAfter(nodes, rec, new)
  /\ nThrottled' = IF IsThrottle(st) THEN nThrottled + 1 ELSE nThrottled
  /\ UNCHANGED <<repo, currentPathEl, nSearches>>

\* the body of the response call c awaits has been read
BodyRead(c) ==
  /\ calls[c].pc = "body"
  /\ LET rec == calls[c]
         new == OnBody(rec, BodyOf(rec.gpath))
     IN  /\ Commit(c, rec, new, galleryEl)
         /\ nodes' = TreeAfter(nodes, rec, new)
  /\ UNCHANGED <<repo, currentPathEl, nThrottled, nSearches>>

\* fetch(url) rejects: no response comes, ghFetch and its caller throw
FetchFailed(c) ==
  /\ calls[c].pc = "fetch"
  /\ Commit(c, calls[c], Throw(calls[c], "TypeError"), galleryEl)
  /\ UNCHANGED <<repo, currentPathEl, nThrottled, nSearches, nodes>>

\* res.json() or res.text() rejects: ghFetch and its caller throw
BodyFailed(c) ==
  /\ calls[c].pc = "body"
  /\ Commit(c, calls[c],
            Throw(calls[c], IF calls[c].lastSt = 200 THEN "SyntaxError" ELSE "TypeError"),
            galleryEl)
  /\ UNCHANGED <<repo, currentPathEl, nThrottled, nSearches, nodes>>

\* the backoff timer of call c fires: continue
BackoffElapsed(c) ==
  /\ calls[c].pc = "wait"
  /\ Commit(c, calls[c], Attempt(calls[c]), galleryEl)
  /\ UNCHANGED <<repo, currentPathEl, nThrottled, nSearches, nodes>>

\* fetch('assets/media.json').then(r => r.json()) gives the demo list
ManifestLoaded(c) ==
  /\ calls[c].pc = "manifest"
  /\ Commit(c, calls[c],
            Done([calls[c] EXCEPT !.media = @ \o Manifest, !.mres = "ok"]), galleryEl)
  /\ UNCHANGED <<repo, currentPathEl, nThrottled, nSearches, nodes>>

\* it fails: catch(e) { /* ignore */ }
ManifestFailed(c) ==
  /\ calls[c].pc = "manifest"
  /\ Commit(c, calls[c], Done([calls[c] EXCEPT !.mres = "failed"]), galleryEl)
  /\ UNCHANGED <<repo, currentPathEl, nThrottled, nSearches, nodes>>

\* item => (item.name||'').toLowerCase().includes(q)
Matches(item, q) == Includes(toLowerCase(item.name), q)

\* the list the input handler hands to renderGallery
SearchResult(base, text) ==
  LET q == toLowerCase(Trim(text))
  IN  IF Len(q) = 0
      THEN base
      ELSE SelectSeq(base, LAMBDA item : Matches(item, q))

\* the filtered list stored as the media set of the path on display
Search_Caching(text) ==
  /\ nSearches' = nSearches + 1
  /\ IF NotArray(allVisibleMedia) /\ Len(toLowerCase(Trim(text))) > 0
     THEN UNCHANGED <<allVisibleMedia, galleryEl, mediaCache>>
     ELSE LET list == SearchResult(allVisibleMedia, text)
          IN  /\ allVisibleMedia' = list
              /\ galleryEl' = renderGallery(list).gallery
              /\ mediaCache' = IF currentPathEl # <<>>
                               THEN Put(mediaCache, Tail(currentPathEl), list)
                               ELSE mediaCache
  /\ lastQuery' = <<text>>
  /\ UNCHANGED <<repo, cache, currentPathEl, calls, nThrottled,
                 lastRender, firstListing, nodes>>

\* globalSearch 'input' handler; allVisibleMedia.filter throws, nothing
\* having changed, when allVisibleMedia is no array
Search(text) ==
  /\ nSearches' = nSearches + 1
  /\ IF NotArray(allVisibleMedia) /\ Len(toLowerCase(Trim(text))) > 0
     THEN UNCHANGED <<allVisibleMedia, galleryEl>>
     ELSE LET list == SearchResult(allVisibleMedia, text)
          IN  /\ allVisibleMedia' = list
              /\ galleryEl' = renderGallery(list).gallery
  /\ lastQuery' = <<text>>
  /\ UNCHANGED <<repo, cache, mediaCache, currentPathEl, calls, nThrottled,
                 lastRender, firstListing, nodes>>

(***************************************************************************)
(* Specifications.  Each bounds the session it explores.                   *)
(***************************************************************************)
\* the remote finds the path or does not
OkStatuses == {200, 404}

\* no invocation is in flight
Quiet == \A c \in DOMAIN calls : calls[c].pc \in {"done", "failed"}

\* the containers the tree has for the directory of path p: #tree for the
\* root, the children container of a folder node of that path otherwise
ContainersOf(p) ==
  IF p = RootPath
  THEN {1}
  ELSE {n \in DOMAIN nodes :
          nodes[n].kind = "folder" /\ nodes[n].path = p /\ nodes[n].attached}

\* Spec: overlapping resolutions and expansions, a remote that answers every
\* request
MaxCalls == 2

Next ==
  \/ Started < MaxCalls /\ \E p \in ShowPaths : ShowMediaForPath(p)
  \/ Started < MaxCalls /\ \E p \in LoadPaths :
       \E n \in ContainersOf(p) : LoadAndRenderDir(p, n)
  \/ \E c \in DOMAIN calls, st \in OkStatuses : Respond(c, st)
  \/ \E c \in DOMAIN calls : BodyRead(c)
  \/ \E c \in DOMAIN calls : ManifestLoaded(c)
  \/ \E c \in DOMAIN calls : ManifestFailed(c)

Spec == Init /\ [][Next]_vars

\* SpecList: overlapping expansions only
ListCalls == 3

NextList ==
  \/ Started < ListCalls /\ \E p \in LoadPaths :
       \E n \in ContainersOf(p) : LoadAndRenderDir(p, n)
  \/ \E c \in DOMAIN calls, st \in OkStatuses : Respond(c, st)
  \/ \E c \in DOMAIN calls : BodyRead(c)

SpecList == Init /\ [][NextList]_vars

\* SpecSearch: resolutions and search inputs
SearchCalls == 1
MaxSearches == 2

NextSearch ==
  \/ Started < SearchCalls /\ \E p \in ShowPaths : ShowMediaForPath(p)
  \/ \E c \in DOMAIN calls, st \in OkStatuses : Respond(c, st)
  \/ \E c \in DOMAIN calls : BodyRead(c)
  \/ \E c \in DOMAIN calls : ManifestLoaded(c)
  \/ \E c \in DOMAIN calls : ManifestFailed(c)
  \/ nSearches < MaxSearches /\ \E text \in Queries : Search(text)

SpecSearch == Init /\ [][NextSearch]_vars

\* SpecRetry: one invocation at a time, a remote that may throttle and fail
\* and a network that may fail
RetryCalls == 1
RetryThrottled == 9

NextRetry ==
  \/ Started < RetryCalls /\ Quiet /\ \E p \in ShowPaths : ShowMediaForPath(p)
  \/ Started < RetryCalls /\ Quiet /\ \E p \in LoadPaths :
       \E n \in ContainersOf(p) : LoadAndRenderDir(p, n)
  \/ \E c \in DOMAIN calls, st \in Statuses :
       (IsThrottle(st) => nThrottled < RetryThrottled) /\ Respond(c, st)
  \/ \E c \in DOMAIN calls : BodyRead(c)
  \/ \E c \in DOMAIN calls : FetchFailed(c)
  \/ \E c \in DOMAIN calls : BodyFailed(c)
  \/ \E c \in DOMAIN calls : BackoffElapsed(c)
  \/ \E c \in DOMAIN calls : ManifestLoaded(c)
  \/ \E c \in DOMAIN calls : ManifestFailed(c)

SpecRetry == Init /\ [][NextRetry]_vars

(***************************************************************************)
(* Claims.                                                                 *)
(***************************************************************************)
\* the resolutions that have rendered their media set: those that have
\* returned, and those whose renderGallery threw
ShownCalls ==
  {c \in DOMAIN calls :
     /\ calls[c].fn = "showMediaForPath"
     /\ calls[c].pc = "done" \/ NotArray(calls[c].media)}

\* the one of them that was requested last
LatestShown == CHOOSE c \in ShownCalls : \A d \in ShownCalls : d <= c

\* C1: stale-response guard.  When resolutions overlap, the gallery and the
\* base list of the search hold the media set of the resolution that was
\* requested last among those that have completed, whatever the order in
\* which they completed: a resolution of P1 that completes after the
\* resolution of a later requested P2 does not replace P2's media set.
C1_StaleResponseGuard ==
  (ShownCalls # {} /\ lastQuery = <<>>) =>
     /\ allVisibleMedia = calls[LatestShown].media
     /\ galleryEl \in {"loading", renderGallery(calls[LatestShown].media).gallery}

\* C2: search never changes the base list.  After a resolution rendered the
\* media set M and after any sequence of search inputs, the gallery shows
\* exactly the items of M whose name contains the trimmed, lower-cased text
\* of the last input, and all of M when that text is empty.
C2_SearchKeepsBase ==
  (lastRender # 0 /\ lastQuery # <<>> /\ ~NotArray(calls[lastRender].media)) =>
     LET M == calls[lastRender].media
         shown == SearchResult(M, lastQuery[1])
     IN  /\ galleryEl = GalleryOf(shown)
         /\ Cards = shown

\* the invocations that are awaiting or have left a ghFetch call
Fetching == {c \in DOMAIN calls : calls[c].sent > 0}

\* C3: retry bound of ghFetch.  A ghFetch call that returns after a 200 has
\* sent exactly k+1 requests, k in 0..4 being the throttled responses before
\* it, and returns the body of that response unmodified; a call whose 200
\* response has been read has returned, and one whose 200 response is being
\* read has sent its last request.  A call that got five throttled responses
\* has sent exactly five requests and sends no sixth: it waits and then fails
\* with the Unavailable error.  No call sends a sixth request.
C3_RetryBound ==
  \A c \in Fetching :
    LET r == calls[c]
    IN  /\ r.sent <= 5
        /\ r.ret.status = 200 =>
             /\ r.ret.thr \in 0..4
             /\ r.ret.sent = r.ret.thr + 1
             /\ r.ret.result = BodyOf(r.ret.path)
        /\ (r.lastSt = 200 /\ r.pc = "body") =>
             r.thr \in 0..4 /\ r.sent = r.thr + 1
        /\ (r.lastSt = 200 /\ r.pc # "body" /\ r.err # "SyntaxError") =>
             r.ret.status = 200 /\ r.ret.path = r.gpath
        /\ r.thr = 5 => r.sent = 5 /\ r.pc \in {"wait", "failed"}
        /\ r.err = "Unavailable" <=> (r.pc = "failed" /\ r.thr = 5)

\* a resolution whose first ghFetch call got its listing at the fifth attempt,
\* after four throttled responses, and whose next ghFetch call failed after
\* five throttled responses
C3_Witness ==
  \E c \in Fetching :
    /\ calls[c].ret.status = 200
    /\ calls[c].ret.thr = 4
    /\ calls[c].ret.sent = 5
    /\ Len(calls[c].ret.result) > 0
    /\ calls[c].err = "Unavailable"
    /\ calls[c].sent = 5

\* the ghFetch call of frame r has returned the empty listing for its last
\* response, as a normal result, and its caller has gone on
C4_ReturnedEmpty(r) ==
  /\ r.ret.status = r.lastSt
  /\ r.ret.path = r.gpath
  /\ r.ret.result = <<>>
  /\ r.ret.sent = r.sent
  /\ r.pc \in {"manifest", "done"}
  /\ r.err = "none"

\* C4: a 404 response and any other response that is neither a 200 nor a
\* throttle end the ghFetch call, on whichever attempt they come, with the
\* empty listing as a normal result, not an error, and with no further
\* request: at once on a 404, while on another status the call is reading
\* the text of the response for the log and returns the empty listing then.
\* Only a 403 or 429 response is followed by a wait and a further request.
C4_ErrorsEndWithEmpty ==
  \A c \in Fetching :
    LET r == calls[c]
    IN  /\ r.lastSt = 404 => C4_ReturnedEmpty(r)
        /\ (r.lastSt \notin {0, 200, 403, 429, 404}) =>
             \/ r.pc = "body"
             \/ C4_ReturnedEmpty(r)
        /\ (r.lastSt \notin {0, 200, 403, 429}) => r.sent = r.thr + 1
        /\ r.pc = "wait" => r.lastSt \in {403, 429}
        /\ (r.pc = "fetch" /\ r.sent > 1) => r.lastSt \in {403, 429}

\* C5: once a listing is cached for a path, no later operation asks the
\* remote for a listing of that path (no invocation has sent a listing
\* request for a path that was in the listing cache), and the cached entry
\* is never removed or replaced (it is still the listing first stored).
C5_CachedNeverRefetched ==
  /\ \A c \in DOMAIN calls : ~calls[c].stale
  /\ \A p \in DOMAIN firstListing : p \in DOMAIN cache /\ cache[p] = firstListing[p]

\* C6: Listing Cache hit.  Once one loadAndRenderDir(path) has completed,
\* every later loadAndRenderDir(path) sends no request and renders from a
\* listing identical to the one the first call obtained.
C6_ListingCacheHit ==
  \A c \in DOMAIN calls :
    (calls[c].fn = "loadAndRenderDir" /\ calls[c].hit) =>
       /\ calls[c].pc = "done"
       /\ calls[c].reqs = 0
       /\ calls[c].items = firstListing[calls[c].path]

\* the step starts an invocation of fn
Starts(fn) ==
  /\ Len(calls') = Len(calls) + 1
  /\ calls'[Len(calls')].fn = fn

\* C7: Media Cache hit.  Once a showMediaForPath(path) has completed and
\* stored its media set, be it empty or the fallback manifest, a later
\* showMediaForPath(path) returns at once, sends no listing request and no
\* manifest request, leaves the Media Cache as it is and renders exactly the
\* media set stored for the path.
C7_MediaCacheHit ==
  [][ (Starts("showMediaForPath") /\ calls'[Len(calls')].path \in DOMAIN mediaCache) =>
        LET n == calls'[Len(calls')]
            stored == mediaCache[n.path]
        IN  /\ n.pc = "done"
            /\ n.reqs = 0
            /\ n.mreqs = 0
            /\ allVisibleMedia' = stored
            /\ galleryEl' = GalleryOf(stored)
            /\ mediaCache' = mediaCache ]_vars

\* a resolution served from the Media Cache with the empty media set a
\* failed manifest load left there
C7_Witness ==
  \E c \in DOMAIN calls :
    /\ calls[c].fn = "showMediaForPath"
    /\ calls[c].hit
    /\ calls[c].pc = "done"
    /\ calls[c].reqs = 0
    /\ calls[c].path \in DOMAIN mediaCache
    /\ mediaCache[calls[c].path] = <<>>
    /\ galleryEl = "placeholder"

\* the listing a ghFetch call of the log returned
Obtained(e) == IF e[2] = 200 THEN repo[e[1]] ELSE <<>>

\* the resolutions that built their media set from repository listings
Resolved ==
  {c \in DOMAIN calls :
     /\ calls[c].fn = "showMediaForPath"
     /\ calls[c].pc = "done"
     /\ ~calls[c].hit
     /\ calls[c].mreqs = 0}

\* the entries of a listing as a set
EntriesOf(listing) == {listing[i] : i \in 1..Len(listing)}

\* x is a file beside it, with its base name and an image extension
IsPosterSibling(x, item) ==
  /\ x.type = "file"
  /\ x.path # item.path
  /\ StripExt(x.name) = StripExt(item.name)
  /\ ExtOf(x.name) \in ImageExts

\* C8: for every media item built from a repository listing, the poster is
\* set only if the item is a video, is a direct file of the resolved
\* directory and has a sibling file with its base name and an image
\* extension in that listing; image items and items of subdirectories have
\* no poster.
C8_PosterOnlyForVideo ==
  \A c \in Resolved :
    LET main == Obtained(calls[c].log[1])
        media == calls[c].media
    IN  \A i \in 1..Len(media) :
          media[i].poster # Null =>
            /\ media[i].type = "video"
            /\ \E x \in EntriesOf(main) : x.path = media[i].path
            /\ \E x \in EntriesOf(main) : IsPosterSibling(x, media[i])

\* the poster preference stated by the claim
C9_Preference ==
  << <<"j","p","g">>, <<"j","p","e","g">>, <<"w","e","b","p">>, <<"p","n","g">> >>

\* the siblings of file it in listing that have its base name and the i-th
\* extension of the preference
C9_Siblings(it, listing, i) ==
  {x \in EntriesOf(listing) :
     x.name = StripExt(it.name) \o <<".">> \o C9_Preference[i]}

\* C9: poster selection for a direct video file.  When the listing has
\* entries with the video's base name and an extension among jpg, jpeg, webp,
\* png, the poster is the raw URL of the first of them in that preference
\* order, whatever their order in the listing; when it has none the poster
\* is unset.
C9_PosterPreference ==
  \A c \in Resolved :
    LET main == Obtained(calls[c].log[1])
        media == calls[c].media
    IN  \A i \in 1..Len(media) :
          \A it \in EntriesOf(main) :
            (it.type = "file" /\ isVideo(it.name) /\ it.path = media[i].path) =>
               LET S == {k \in 1..4 : C9_Siblings(it, main, k) # {}}
               IN  IF S = {}
                   THEN media[i].poster = Null
                   ELSE LET k == CHOOSE j \in S : \A l \in S : j <= l
                        IN  \E x \in C9_Siblings(it, main, k) :
                              media[i].poster = rawUrl(x.path)

RECURSIVE MediaPathsOf(_)
\* the paths of the media files of a listing, in listing order
MediaPathsOf(listing) ==
  IF listing = <<>>
  THEN <<>>
  ELSE LET h == Head(listing)
       IN  (IF h.type = "file" /\ isMediaFile(h.name) THEN <<h.path>> ELSE <<>>)
             \o MediaPathsOf(Tail(listing))

RECURSIVE DirPathsOf(_)
\* the paths of the directories of a listing, in listing order
DirPathsOf(listing) ==
  IF listing = <<>>
  THEN <<>>
  ELSE LET h == Head(listing)
       IN  (IF h.type = "dir" THEN <<h.path>> ELSE <<>>) \o DirPathsOf(Tail(listing))

RECURSIVE SubMediaPaths(_, _)
\* the media paths of the listings the log holds from position i on
SubMediaPaths(log, i) ==
  IF i > Len(log)
  THEN <<>>
  ELSE MediaPathsOf(Obtained(log[i])) \o SubMediaPaths(log, i + 1)

\* C10: media set content and order.  A resolution that found a media file
\* asked for the listing of its directory and then of each direct
\* subdirectory, in listing order, and of nothing else; its media set is
\* exactly the direct media files in listing order followed by, for each
\* direct subdirectory in listing order, that subdirectory's direct media
\* files in its listing order.  A resolution in flight asks for no other
\* listing either, so none two or more levels below the directory.
C10_MediaSetOrder ==
  /\ \A c \in Resolved :
       LET r == calls[c]
           main == Obtained(r.log[1])
       IN  /\ [i \in 1..Len(r.log) |-> r.log[i][1]] = <<r.path>> \o DirPathsOf(main)
           /\ [i \in 1..Len(r.media) |-> r.media[i].path]
                = MediaPathsOf(main) \o SubMediaPaths(r.log, 2)
  /\ \A c \in DOMAIN calls :
       (calls[c].fn = "showMediaForPath" /\ calls[c].pc = "fetch") =>
          IF calls[c].log = <<>>
          THEN calls[c].gpath = calls[c].path
          ELSE \E x \in EntriesOf(Obtained(calls[c].log[1])) :
                 x.type = "dir" /\ x.path = calls[c].gpath

\* the root resolved with its direct media file followed by the two of its
\* first subdirectory, v.mp4, and then the three of its second, d, whose own
\* subdirectory holds a media file as well
C10_Witness ==
  \E c \in Resolved :
    /\ calls[c].path = RootPath
    /\ calls[c].log = << <<RootPath, 200>>, <<VPath, 200>>, <<DPath, 200>> >>
    /\ [i \in 1..Len(calls[c].media) |-> calls[c].media[i].name]
         = << <<"p","n","g">>, <<"v",".","j","p","g">>, <<"v",".","m","p","4">>,
              <<"v",".","M","P","4">>, <<"v",".","j","p","g">>, <<"b",".","g","i","f">> >>
    /\ \E x \in EntriesOf(repo[DPath]) :
         x.type = "dir" /\ MediaPathsOf(repo[x.path]) # <<>>

(***************************************************************************)
(* SpecFallback: resolutions, one at a time, in a repository whose root    *)
(* holds no media file, neither directly nor one level below.              *)
(***************************************************************************)
NPath == <<"n">>
KPath == <<"n","/","k">>

FallbackRoot ==
  << Entry(<<"r","e","a","d","m","e">>, <<"r","e","a","d","m","e">>, "file"),
     Entry(<<"n">>, NPath, "dir") >>

NListing ==
  << Entry(<<"t",".","t","x","t">>, NPath \o <<"/","t",".","t","x","t">>, "file"),
     Entry(<<"k">>, KPath, "dir") >>

KListing ==
  << Entry(<<"z",".","w","e","b","m">>, KPath \o <<"/","z",".","w","e","b","m">>, "file") >>

FallbackRepos ==
  { (RootPath :> FallbackRoot) @@ (NPath :> NListing) @@ (KPath :> KListing) }

FallbackPaths == {RootPath, NPath, KPath}

InitFallback == repo \in FallbackRepos /\ Loaded

FallbackCalls == 2

NextFallback ==
  \/ Started < FallbackCalls /\ Quiet /\ \E p \in FallbackPaths : ShowMediaForPath(p)
  \/ \E c \in DOMAIN calls, st \in OkStatuses : Respond(c, st)
  \/ \E c \in DOMAIN calls : BodyRead(c)
  \/ \E c \in DOMAIN calls : ManifestLoaded(c)
  \/ \E c \in DOMAIN calls : ManifestFailed(c)

SpecFallback == InitFallback /\ [][NextFallback]_vars

\* C11: fallback.  A resolution whose directory listing and direct
\* subdirectory listings hold no media file asks for media.json once, after
\* all of those listings, and its media set, which is the one stored in the
\* Media Cache, is exactly the manifest's items in manifest order when the
\* load succeeds and empty when it fails, the failure being swallowed.  A
\* resolution that found a repository media file never asks for media.json
\* and its media set is the repository's media.
C11_Fallback ==
  \A c \in DOMAIN calls :
    LET r == calls[c]
        found == SubMediaPaths(r.log, 1)
    IN  (r.fn = "showMediaForPath" /\ ~r.hit) =>
          /\ r.mreqs > 0 =>
               /\ r.mreqs = 1
               /\ found = <<>>
               /\ Len(r.log) = 1 + Len(DirPathsOf(Obtained(r.log[1])))
          /\ r.pc = "done" =>
               /\ r.err = "none"
               /\ r.path \in DOMAIN mediaCache
               /\ mediaCache[r.path] = r.media
               /\ IF found # <<>>
                  THEN /\ r.mreqs = 0
                       /\ r.mres = "none"
                       /\ [i \in 1..Len(r.media) |-> r.media[i].path] = found
                  ELSE /\ r.mreqs = 1
                       /\ r.mres \in {"ok", "failed"}
                       /\ r.mres = "ok" => r.media = Manifest
                       /\ r.mres = "failed" => r.media = <<>>

\* the root resolved from its listing and that of its one subdirectory, which
\* hold files but no media file, while two levels below there is one: the
\* media set is the manifest
C11_Witness ==
  \E c \in DOMAIN calls :
    /\ calls[c].fn = "showMediaForPath"
    /\ calls[c].pc = "done"
    /\ calls[c].log = << <<RootPath, 200>>, <<NPath, 200>> >>
    /\ calls[c].mres = "ok"
    /\ calls[c].media = Manifest
    /\ mediaCache[RootPath] = Manifest
    /\ MediaPathsOf(repo[KPath]) # <<>>

(***************************************************************************)
(* SpecTree: the page from its load on.  init() is awaiting the root       *)
(* listing; the user clicks the folder and file nodes of #tree and presses *)
(* the Enter key on them.                                                  *)
(***************************************************************************)
TEPath == <<"n","/","E">>
TDPath == <<"n","/","d">>

TreeRootListing ==
  << Entry(ToStringPath, ToStringPath, "file"),
     Entry(<<"n">>, NPath, "dir"),
     Entry(<<"c",".","p","n","g">>, <<"c",".","p","n","g">>, "file"),
     Entry(ConstructorPath, ConstructorPath, "dir") >>

\* neither its directories nor its files are in the order of their names
TreeNListing ==
  << Entry(<<"B",".","p","n","g">>, NPath \o <<"/","B",".","p","n","g">>, "file"),
     Entry(<<"E">>, TEPath, "dir"),
     Entry(<<"a",".","t","x","t">>, NPath \o <<"/","a",".","t","x","t">>, "file"),
     Entry(<<"d">>, TDPath, "dir") >>

TreeEListing ==
  << Entry(<<"x",".","g","i","f">>, TEPath \o <<"/","x",".","g","i","f">>, "file") >>

TreeDListing ==
  << Entry(<<"z",".","w","e","b","m">>, TDPath \o <<"/","z",".","w","e","b","m">>, "file") >>

TreeRepos ==
  { (RootPath :> TreeRootListing) @@ (NPath :> TreeNListing)
      @@ (TEPath :> TreeEListing) @@ (TDPath :> TreeDListing)
      @@ (ConstructorPath :> <<>>) }

InitTree == repo \in TreeRepos /\ Loaded

TreeCalls == 3
MaxToggles == 3

\* lines 85-93 of the click listener of folder node n: the node flipped
Toggle(ns, n) ==
  [x \in 1..Len(ns) |->
     IF x # n
     THEN ns[x]
     ELSE IF ns[x].expanded
          THEN [ns[x] EXCEPT !.expanded = FALSE, !.display = "none", !.clicks = @ + 1]
          ELSE [ns[x] EXCEPT !.expanded = TRUE, !.display = "block", !.clicks = @ + 1]]

RECURSIVE Bubble(_, _)
\* the keydown event goes on from node x to the nodes around it, the children
\* container of a folder being inside its node: the keydown listener of every
\* folder node around x calls node.click(), and the click listener of such a
\* node, whose container holds a node, calls no loadAndRenderDir
Bubble(ns, x) ==
  LET p == ns[x].parent
  IN  IF p = 0 \/ ns[p].kind # "folder" THEN ns ELSE Bubble(Toggle(ns, p), p)

\* the click listener of folder node n runs, up to its await or to its end;
\* key tells that the keydown listener of n called it, for the Enter key, the
\* keydown event going on to the nodes around n after it
FolderClicked(n, key) ==
  /\ nodes[n].kind = "folder"
  /\ Visible(nodes, n)
  /\ LET ns == Toggle(nodes, n)
         Up(t) == IF key THEN Bubble(t, n) ELSE t
     IN  IF nodes[n].expanded \/ nodes[n].kids # <<>>
         THEN /\ nodes' = Up(ns)
              /\ UNCHANGED <<repo, cache, mediaCache, allVisibleMedia, galleryEl,
                             currentPathEl, calls, nThrottled, nSearches, lastRender,
                             lastQuery, firstListing>>
         ELSE /\ LET c == Len(calls) + 1
                     rec == [NewCall("loadAndRenderDir", nodes[n].path)
                               EXCEPT !.node = n]
                     new == LoadCall(rec)
                 IN  /\ Commit(c, rec, new, galleryEl)
                     /\ nodes' = Up(TreeAfter(ns, rec, new))
              /\ UNCHANGED <<repo, currentPathEl, nThrottled, nSearches>>

\* a click on folder node n
ClickFolder(n) == FolderClicked(n, FALSE)

\* the Enter key pressed while folder node n holds the focus
KeyEnterFolder(n) == FolderClicked(n, TRUE)

\* the click listener of file node n runs: showMediaForPath(item.path); key
\* as for a folder node
FileClicked(n, key) ==
  /\ nodes[n].kind = "file"
  /\ Visible(nodes, n)
  /\ LET c == Len(calls) + 1
         rec == [NewCall("showMediaForPath", nodes[n].path) EXCEPT !.node = n]
     IN  Commit(c, rec, ShowCall(rec), "loading")
  /\ currentPathEl' = <<"/">> \o nodes[n].path
  /\ LET ns == [nodes EXCEPT ![n].clicks = @ + 1]
     IN  nodes' = IF key THEN Bubble(ns, n) ELSE ns
  /\ UNCHANGED <<repo, nThrottled, nSearches>>

\* a click on file node n
ClickFile(n) == FileClicked(n, FALSE)

\* the Enter key pressed while file node n holds the focus
KeyEnterFile(n) == FileClicked(n, TRUE)

\* the click on folder node n calls loadAndRenderDir
Loads(n) == ~nodes[n].expanded /\ nodes[n].kids = <<>>

NextTree ==
  \/ \E n \in DOMAIN nodes :
       /\ nodes[n].clicks < MaxToggles
       /\ Loads(n) => Started < TreeCalls
       /\ ClickFolder(n)
  \/ \E n \in DOMAIN nodes :
       /\ nodes[n].clicks < MaxToggles
       /\ Loads(n) => Started < TreeCalls
       /\ KeyEnterFolder(n)
  \/ Started < TreeCalls /\ \E n \in DOMAIN nodes : ClickFile(n)
  \/ Started < TreeCalls /\ \E n \in DOMAIN nodes : KeyEnterFile(n)
  \/ \E c \in DOMAIN calls, st \in OkStatuses : Respond(c, st)
  \/ \E c \in DOMAIN calls : BodyRead(c)
  \/ \E c \in DOMAIN calls : ManifestLoaded(c)
  \/ \E c \in DOMAIN calls : ManifestFailed(c)

SpecTree == InitTree /\ [][NextTree]_vars

\* SpecTreeRetry: expansions of the folder nodes, by click and by the Enter
\* key, against a remote that may throttle
RetryTreeCalls == 2
RetryToggles == 3
TreeThrottled == 5
ThrottleStatuses == {200, 429}

NextTreeRetry ==
  \/ \E n \in DOMAIN nodes :
       /\ nodes[n].clicks < RetryToggles
       /\ Loads(n) => Started < RetryTreeCalls
       /\ ClickFolder(n)
  \/ \E n \in DOMAIN nodes :
       /\ nodes[n].clicks < RetryToggles
       /\ Loads(n) => Started < RetryTreeCalls
       /\ KeyEnterFolder(n)
  \/ \E c \in DOMAIN calls, st \in ThrottleStatuses :
       (IsThrottle(st) => nThrottled < TreeThrottled) /\ Respond(c, st)
  \/ \E c \in DOMAIN calls : BodyRead(c)
  \/ \E c \in DOMAIN calls : FetchFailed(c)
  \/ \E c \in DOMAIN calls : BodyFailed(c)
  \/ \E c \in DOMAIN calls : BackoffElapsed(c)

SpecTreeRetry == InitTree /\ [][NextTreeRetry]_vars

\* the path of the directory whose listing made file node n
DirOf(n) ==
  IF nodes[nodes[n].parent].kind = "folder"
  THEN nodes[nodes[n].parent].path
  ELSE RootPath

\* C12: selecting any file node of the tree, media or not, starts the media
\* resolution of the directory that contains the file: the path resolved,
\* which is the key of the Media Cache, and the path of the listing requested
\* first are those of the file's parent directory, not of the file.
C12_FileClickResolvesParent ==
  \A c \in DOMAIN calls :
    (calls[c].fn = "showMediaForPath" /\ calls[c].node # 0) =>
       /\ calls[c].path = DirOf(calls[c].node)
       /\ (calls[c].stage = "main" /\ calls[c].sent > 0) =>
            calls[c].gpath = DirOf(calls[c].node)

\* the invocations of loadAndRenderDir made by the clicks on folder node n
LoadsOf(n) ==
  {c \in DOMAIN calls : calls[c].fn = "loadAndRenderDir" /\ calls[c].node = n}

\* C13: for every folder node and every sequence of clicks on it, clicks
\* that come while the fetch of an earlier expansion is in flight included,
\* the children of the node are fetched at most once (at most one of its
\* expansions sends a listing request) and rendered at most once (at most
\* one of them runs renderDirListing).
C13_ChildrenFetchedOnce ==
  \A n \in DOMAIN nodes :
    nodes[n].kind = "folder" =>
       /\ Cardinality({c \in LoadsOf(n) : calls[c].reqs > 0}) <= 1
       /\ Cardinality({c \in LoadsOf(n) : calls[c].pc = "done"}) <= 1

\* C14: a search input never triggers a fetch and never changes the caches:
\* the step that handles a search query starts no invocation, sends no
\* request (no frame changes) and leaves the Listing Cache and the Media
\* Cache as they were.
C14_SearchNoFetch ==
  [][ nSearches' # nSearches =>
        /\ calls' = calls
        /\ cache' = cache
        /\ mediaCache' = mediaCache ]_vars

\* a search has narrowed the list on display to fewer items than the Media
\* Cache holds for the path resolved
C14_Witness ==
  /\ nSearches > 0
  /\ lastQuery # <<>>
  /\ lastRender # 0
  /\ calls[lastRender].path \in DOMAIN mediaCache
  /\ Len(allVisibleMedia) < Len(mediaCache[calls[lastRender].path])

\* the extensions the claim lists
C15_ImageExts == { <<"p","n","g">>, <<"j","p","g">>, <<"j","p","e","g">>,
                   <<"w","e","b","p">>, <<"g","i","f">> }
C15_VideoExts == { <<"m","p","4">>, <<"w","e","b","m">>, <<"o","g","v">> }

\* the kind the claim gives a filename: decided by the lowercased substring
\* after the last '.', other when the name has no '.'
C15_Kind(name) ==
  LET dots == {i \in 1..Len(name) : name[i] = "."}
  IN  IF dots = {}
      THEN "other"
      ELSE LET d == CHOOSE i \in dots : \A j \in dots : j <= i
               ext == [i \in 1..(Len(name) - d) |-> LowerChar(name[d + i])]
           IN  IF ext \in C15_ImageExts THEN "image"
               ELSE IF ext \in C15_VideoExts THEN "video"
               ELSE "other"

\* C15: file classification is total and case-insensitive.  For every file
\* of a listing a resolution went through, isImage, isVideo and isMediaFile
\* answer by the lowercased substring of the name after its last '.' alone
\* (other for a name without extension), isMediaFile being true exactly when
\* the kind is not other, and the resolution made a media item for the file
\* exactly when its kind is not other, of that kind.
C15_Classification ==
  \A c \in Resolved :
    \A i \in 1..Len(calls[c].log) :
      \A e \in EntriesOf(Obtained(calls[c].log[i])) :
        e.type = "file" =>
          LET k == C15_Kind(e.name)
              media == calls[c].media
          IN  /\ isImage(e.name) <=> k = "image"
              /\ isVideo(e.name) <=> k = "video"
              /\ isMediaFile(e.name) <=> k # "other"
              /\ (\E j \in 1..Len(media) : media[j].path = e.path) <=> k # "other"
              /\ \A j \in 1..Len(media) : media[j].path = e.path => media[j].type = k

\* the folder nodes of ns
Folders(ns) == {n \in DOMAIN ns : ns[n].kind = "folder"}

\* node n of ns is Collapsed: aria-expanded 'false', children hidden
Collapsed(ns, n) == ~ns[n].expanded /\ ns[n].display = "none"

\* node n of ns is Expanded: aria-expanded 'true', children shown
Expanded(ns, n) == ns[n].expanded /\ ns[n].display = "block"

\* C16: folder node state machine.  A folder node is made Collapsed and with
\* no children; it is always either Collapsed or Expanded; each toggle of it,
\* a run of its click listener, flips it between the two and nothing else
\* changes its state.  Collapsing an Expanded node only hides its children:
\* the step changes nothing but the state of that node, so it keeps the
\* children as they were, starts no invocation, sends no request and changes
\* no cache.  When the fetch of an expansion fails, with Unavailable or
\* because the request or the reading of its response failed, the tree and
\* the cache are left as they were and the node is Expanded with an empty
\* child list, there being no error state; so is a node whose expansion
\* throws before any fetch.
C16_FolderStateMachine ==
  [][ /\ \A n \in Folders(nodes') :
           /\ Collapsed(nodes', n) \/ Expanded(nodes', n)
           /\ n \notin DOMAIN nodes => Collapsed(nodes', n) /\ nodes'[n].kids = <<>>
      /\ \A n \in Folders(nodes) :
           /\ nodes'[n].clicks = nodes[n].clicks + 1 =>
                nodes'[n].expanded = ~nodes[n].expanded
           /\ nodes'[n].clicks = nodes[n].clicks =>
                nodes'[n].expanded = nodes[n].expanded
           /\ (Expanded(nodes, n) /\ ~Expanded(nodes', n)) =>
                /\ Collapsed(nodes', n)
                /\ nodes' = [nodes EXCEPT ![n].expanded = FALSE, ![n].display = "none",
                                          ![n].clicks = @ + 1]
                /\ calls' = calls
                /\ cache' = cache
                /\ mediaCache' = mediaCache
      /\ \A c \in DOMAIN calls :
           (calls[c].fn = "loadAndRenderDir" /\ calls[c].node # 0
              /\ calls[c].pc # "failed" /\ calls'[c].pc = "failed") =>
                /\ calls'[c].err \in {"Unavailable", "TypeError", "SyntaxError"}
                /\ nodes' = nodes
                /\ cache' = cache
                /\ Expanded(nodes', calls[c].node)
                /\ nodes'[calls[c].node].kids = <<>>
      /\ (Starts("loadAndRenderDir") /\ calls'[Len(calls')].pc = "failed") =>
           /\ Expanded(nodes', calls'[Len(calls')].node)
           /\ nodes'[calls'[Len(calls')].node].kids = <<>>
           /\ cache' = cache
    ]_vars

\* SpecUnavailable: resolutions, one at a time, against a remote that may
\* throttle
FailCalls == 2
FailThrottled == 5

NextUnavailable ==
  \/ Started < FailCalls /\ Quiet /\ \E p \in ShowPaths : ShowMediaForPath(p)
  \/ \E c \in DOMAIN calls, st \in ThrottleStatuses :
       (IsThrottle(st) => nThrottled < FailThrottled) /\ Respond(c, st)
  \/ \E c \in DOMAIN calls : BodyRead(c)
  \/ \E c \in DOMAIN calls : BackoffElapsed(c)

SpecUnavailable == Init /\ [][NextUnavailable]_vars

\* the resolutions the step started or resumed and left awaiting a listing
\* or failed with Unavailable
Unfinished ==
  {c \in DOMAIN calls' :
     /\ calls'[c].fn = "showMediaForPath"
     /\ \/ calls'[c].pc \in {"fetch", "body", "wait"}
        \/ calls'[c].pc = "failed" /\ calls'[c].err = "Unavailable"
     /\ c \in DOMAIN calls => calls'[c] # calls[c]}

\* the resolutions whose ghFetch call leaves its loop in the step, the wait
\* after its fifth throttled response being over
Exhausted ==
  {c \in DOMAIN calls :
     /\ calls[c].fn = "showMediaForPath"
     /\ calls[c].pc = "wait"
     /\ calls[c].thr = 5
     /\ calls'[c] # calls[c]}

\* C17: when a listing request of a media resolution, for the selected path
\* or for one of its subdirectories, fails with Unavailable, nothing is
\* stored in the Media Cache for the path, the base list of the search is
\* left as it was from the selection on, and the gallery stays on its loading
\* text; a later selection of the same path, no resolution of it having
\* succeeded since, sends a listing request for it again.
C17_UnavailableLeavesLoading ==
  [][ /\ \A c \in Exhausted :
           /\ calls'[c].pc = "failed"
           /\ calls'[c].err = "Unavailable"
           /\ calls'[c].path \notin DOMAIN mediaCache'
           /\ mediaCache' = mediaCache
           /\ allVisibleMedia' = allVisibleMedia
           /\ galleryEl' = "loading"
      /\ \A c \in Unfinished :
           /\ mediaCache' = mediaCache
           /\ allVisibleMedia' = allVisibleMedia
           /\ galleryEl' = "loading"
           /\ calls'[c].pc = "failed" => calls'[c].path \notin DOMAIN mediaCache'
      /\ (/\ Starts("showMediaForPath")
          /\ \E d \in DOMAIN calls :
               /\ calls[d].pc = "failed"
               /\ calls[d].err = "Unavailable"
               /\ calls[d].path = calls'[Len(calls')].path
               /\ \A e \in DOMAIN calls :
                    e > d /\ calls[e].path = calls[d].path => calls[e].pc = "failed") =>
            LET n == calls'[Len(calls')]
            IN  /\ n.pc = "fetch"
                /\ n.reqs = 1
                /\ n.gpath = n.path
    ]_vars

\* a resolution failed at the listing of a subdirectory, after it got the
\* listing of its path; the same path was selected again and resolved, with
\* new listing requests
C17_Witness ==
  \E c, d \in DOMAIN calls :
    /\ c < d
    /\ calls[c].pc = "failed"
    /\ calls[c].err = "Unavailable"
    /\ calls[c].stage = "sub"
    /\ calls[d].path = calls[c].path
    /\ calls[d].pc = "done"
    /\ calls[d].reqs >= 2
    /\ calls[d].path \in DOMAIN mediaCache

\* name a comes before name b in alphabetical order: by their letters, case
\* apart
C18_Before(a, b) ==
  LexLess([i \in 1..Len(a) |-> PrimaryKey(a[i])], [i \in 1..Len(b) |-> PrimaryKey(b[i])])

\* the expansions whose renderDirListing runs in the step
Rendering ==
  {c \in DOMAIN calls' :
     /\ calls'[c].fn = "loadAndRenderDir"
     /\ calls'[c].node # 0
     /\ calls'[c].pc = "done"
     /\ c \in DOMAIN calls => calls[c].pc # "done"}

\* C18: within one directory's expansion renderDirListing leaves in the
\* container every directory node before every file node, each group in
\* ascending alphabetical order of name, whatever the order of the entries
\* in the listing, and one node, of the entry's name and path, for every
\* entry of type dir or file and no other node; the nodes are appended to
\* that container, so they are in the document exactly when it is.
C18_RenderOrder ==
  [][ \A c \in Rendering :
        LET items == calls'[c].items
            kids == nodes'[calls'[c].node].kids
            K(i) == nodes'[kids[i]]
            shown == {e \in 1..Len(items) : items[e].type \in {"dir", "file"}}
        IN  /\ \A i, j \in 1..Len(kids) :
                 i < j =>
                   /\ ~(K(i).kind = "file" /\ K(j).kind = "folder")
                   /\ K(i).kind = K(j).kind => C18_Before(K(i).name, K(j).name)
            /\ \A e \in shown :
                 Cardinality({i \in 1..Len(kids) :
                                /\ K(i).name = items[e].name
                                /\ K(i).path = items[e].path
                                /\ K(i).kind = IF items[e].type = "dir"
                                               THEN "folder" ELSE "file"}) = 1
            /\ Len(kids) = Cardinality(shown)
            /\ \A i \in 1..Len(kids) :
                 /\ K(i).parent = calls'[c].node
                 /\ K(i).attached = nodes'[calls'[c].node].attached
    ]_vars

\* the folder n expanded: its listing is B.png, E/, a.txt, d/ and its
\* container holds d, E, a.txt, B.png
C18_Witness ==
  \E n \in DOMAIN nodes :
    /\ nodes[n].kind = "folder"
    /\ nodes[n].path = NPath
    /\ [i \in 1..Len(repo[NPath]) |-> repo[NPath][i].name]
         = << <<"B",".","p","n","g">>, <<"E">>, <<"a",".","t","x","t">>, <<"d">> >>
    /\ [i \in 1..Len(nodes[n].kids) |-> nodes[nodes[n].kids[i]].name]
         = << <<"d">>, <<"E">>, <<"a",".","t","x","t">>, <<"B",".","p","n","g">> >>

\* C19: backoff delays of ghFetch.  A wait begins only at a throttled
\* response, the n-th throttled response of a call (n = 1..5) being followed
\* by a wait of 500 x 2^n milliseconds; a call sends a further request only
\* when that wait is over, and a wait ends in nothing but the next request or
\* the failure of the call.
C19_BackoffDoubles ==
  [][ \A c \in DOMAIN calls :
        LET r == calls[c]
            s == calls'[c]
        IN  /\ (s.pc = "wait" /\ r.pc # "wait") =>
                 /\ r.pc = "fetch"
                 /\ s.lastSt \in {403, 429}
                 /\ s.thr = r.thr + 1
                 /\ s.thr \in 1..5
                 /\ s.wait = 500 * (2 ^ s.thr)
            /\ (s.pc = "wait" /\ r.pc = "wait") => s = r
            /\ (r.sent >= 1 /\ s.sent = r.sent + 1) =>
                 /\ r.pc = "wait"
                 /\ r.wait = 500 * (2 ^ r.sent)
                 /\ s.pc = "fetch"
            /\ (r.pc = "wait" /\ s # r) => s.pc \in {"fetch", "failed"}
            /\ s.pc # "wait" => s.wait = 0
    ]_vars

\* a call waits 16000 ms after its fifth throttled response
C19_Witness ==
  \E c \in DOMAIN calls :
    /\ calls[c].pc = "wait"
    /\ calls[c].thr = 5
    /\ calls[c].sent = 5
    /\ calls[c].wait = 16000

(***************************************************************************)
(* SpecAnswered: one invocation at a time and a remote that answers every  *)
(* request, with any of the statuses and as many throttles as it likes.    *)
(***************************************************************************)
AnsweredCalls == 1

\* the invocations of SpecAnswered: init() and those made since
AnsweredIds == 1..(AnsweredCalls + 1)

\* await fetch(url) resolves: the response to the pending request of call c
\* arrives, an error, a throttle or the listing
Answered(c) ==
  /\ c \in DOMAIN calls
  /\ \/ \E st \in Statuses \ {200} : Respond(c, st)
     \/ Respond(c, 200)

\* the promise of res.json() or res.text() that call c awaits settles: it
\* rejects or it gives the body
BodySettled(c) == c \in DOMAIN calls /\ (BodyFailed(c) \/ BodyRead(c))

\* the timer of setTimeout(r, wait) that call c awaits fires
TimerFired(c) == c \in DOMAIN calls /\ BackoffElapsed(c)

NextAnswered ==
  \/ Started < AnsweredCalls /\ Quiet /\ \E p \in ShowPaths : ShowMediaForPath(p)
  \/ Started < AnsweredCalls /\ Quiet /\ \E p \in LoadPaths :
       \E n \in ContainersOf(p) : LoadAndRenderDir(p, n)
  \/ \E c \in DOMAIN calls : Answered(c)
  \/ \E c \in DOMAIN calls : BodySettled(c)
  \/ \E c \in DOMAIN calls : TimerFired(c)
  \/ \E c \in DOMAIN calls : ManifestLoaded(c)
  \/ \E c \in DOMAIN calls : ManifestFailed(c)

\* every request is answered in the end and every backoff timer fires in
\* the end; the promise of a body read settles in the end as well, so that
\* no call is left waiting for a body
SpecAnswered ==
  /\ Init
  /\ [][NextAnswered]_vars
  /\ \A c \in AnsweredIds :
       WF_vars(Answered(c)) /\ WF_vars(BodySettled(c)) /\ WF_vars(TimerFired(c))

\* invocation c is inside a ghFetch call: awaiting a response, its body or a
\* timer
InGhFetch(c) == calls[c].pc \in {"fetch", "body", "wait"}

\* the last ghFetch call of frame r returned a listing to its caller
GhFetchReturned(r) == r.ret.path = r.gpath /\ r.ret.sent = r.sent

\* the last ghFetch call of frame r threw the error of line 42
GhFetchUnavailable(r) == r.pc = "failed" /\ r.err = "Unavailable"

\* C20: every ghFetch call terminates.  Each request getting a response in
\* the end and each backoff timer firing in the end, every ghFetch call an
\* invocation makes ends in the end, and ends in one of two ways, returning
\* a listing or failing with Unavailable, whatever statuses the remote
\* answers with: from some point on the invocation is inside no ghFetch call
\* and the last one it made has returned a listing or failed with
\* Unavailable.
C20_GhFetchTerminates ==
  \A c \in AnsweredIds :
    <>[](c \in DOMAIN calls =>
           /\ ~InGhFetch(c)
           /\ calls[c].sent > 0 =>
                GhFetchReturned(calls[c]) \/ GhFetchUnavailable(calls[c]))

====
